---- MODULE Spec2Model ----
(***************************************************************************)
(* Chrome DevTools reverse proxy (reverse-proxy.go, embedded in the        *)
(* browser-use example): the router ServeHTTP, the operational endpoints,  *)
(* the two discovery handlers, the transparent forwarder and the           *)
(* WebSocket URL rewriter; the connection of the http.Server with its     *)
(* timeouts; and the agentic loop of SandboxAgent.chat (agent.ts, the      *)
(* claude-agent-sdk example).                                              *)
(*                                                                         *)
(* Strings are sequences of one-character strings, so that                 *)
(* strings.Contains / strings.Replace / strings.Split / strings.ToLower    *)
(* are computed on the characters as the Go code computes them.            *)
(***************************************************************************)
EXTENDS Integers, Sequences, FiniteSets, TLC

VARIABLES
    \* ---- ChromeDevToolsClient
    requestCount,     \* c.requestCount
    errorCount,       \* c.errorCount
    \* ---- the debugged process
    upstreamUp,       \* whether the upstream accepts connections
    \* ---- the request ServeHTTP handled last, and what came of it
    request,          \* the inbound request
    handler,          \* the case of the switch that was taken
    fetched,          \* outcome of the handler's c.client.Get, if it made one
    gets,             \* number of c.client.Get calls the handler made
    outbound,         \* the request the forwarder sent upstream, if it did
    response,         \* the response written
    \* ---- concurrent connections: one goroutine of net/http per connection
    conns,            \* per goroutine: where it is in ServeHTTP, and its locals
    \* ---- harness of the pure function rewriteWebSocketURL
    originalURL,      \* first argument
    publicHostPort,   \* third argument (the second is targetHostPort)
    newURL,           \* rewriteWebSocketURL(originalURL, ...)
    newURL2,          \* rewriteWebSocketURL(newURL, ...)
    rwPc,             \* "off" | "input" | "once" | "twice"
    \* ---- one connection of the http.Server, with its deadlines
    clock,            \* seconds since the server started
    call,             \* the request on the connection: where it is, its timers
    \* ---- SandboxAgent (agent.ts)
    agent,            \* the agent's message history and where chat() is
    box,              \* the agent's sandbox, its server, and the platform's side
    wait,             \* one call of waitForServer: its loop and its requests
    main              \* runInteractiveMode: where it is, what cleanup did

srvVars == <<requestCount, errorCount, upstreamUp, request, handler, fetched,
             gets, outbound, response>>

rwVars == <<originalURL, publicHostPort, newURL, newURL2, rwPc>>

tmVars == <<clock, call>>

cliVars == <<wait, main>>

agVars == <<agent, box, cliVars>>

vars == <<srvVars, conns, rwVars, tmVars, agVars>>

\* ------------------------------------------------------------------ bounds

\* number of pieces an input URL of the rewriter harness is built from
MaxUrlParts == 3

\* number of requests served in one run
MaxRequests == 2

\* number of connections served concurrently
NumClients == 2

\* longest target list the upstream answers
MaxTargets == 2

\* seconds the process has been up when a request is served
MaxElapsed == 1

\* seconds the clock of the timed connection runs
MaxClock == 31

\* number of chat() calls of the agent in one run
MaxChats == 2

\* number of model responses streamed in one run
MaxModelCalls == 3

\* number of sandboxes the platform creates in one run, the first included
MaxSandboxes == 2

\* number of server processes started in one run
MaxServers == 3

\* number of restarts write_file schedules in one run
MaxTimers == 2

\* number of tool calls in one run
MaxToolCalls == 3

\* largest maxRetries a call of waitForServer is given
MaxRetries == 4

\* commands typed at the prompt of runInteractiveMode in one run
MaxCommands == 3

\* ------------------------------------------------------------- Go strings

DigitChars == <<"0","1","2","3","4","5","6","7","8","9">>

UpperChars == <<"A","B","C","D","E","F","G","H","I","J","K","L","M",
                "N","O","P","Q","R","S","T","U","V","W","X","Y","Z">>

LowerChars == <<"a","b","c","d","e","f","g","h","i","j","k","l","m",
                "n","o","p","q","r","s","t","u","v","w","x","y","z">>

\* s[from:] with Go's 0-based offset
SliceFrom(s, from) == SubSeq(s, from + 1, Len(s))

\* s[:to] with Go's 0-based offset
SliceTo(s, to) == SubSeq(s, 1, to)

\* strings.Index: 0-based offset of the first occurrence of p in s, -1 if none
Index(s, p) ==
    LET hits == { i \in 0..(Len(s) - Len(p)) : SubSeq(s, i + 1, i + Len(p)) = p }
    IN  IF hits = {} THEN -1
        ELSE CHOOSE i \in hits : \A j \in hits : i <= j

\* strings.Contains
Contains(s, p) == Index(s, p) >= 0

\* strings.HasPrefix
HasPrefix(s, p) == Len(s) >= Len(p) /\ SubSeq(s, 1, Len(p)) = p

\* strings.Replace(s, old, new, n) for n >= 0 and a non-empty old:
\* the first n non-overlapping occurrences of old are replaced
RECURSIVE Replace(_, _, _, _)
Replace(s, old, new, n) ==
    LET i == Index(s, old)
    IN  IF n = 0 \/ i < 0 THEN s
        ELSE SliceTo(s, i) \o new
             \o Replace(SliceFrom(s, i + Len(old)), old, new, n - 1)

\* strings.Split(s, sep) for a non-empty sep
RECURSIVE Split(_, _)
Split(s, sep) ==
    LET i == Index(s, sep)
    IN  IF i < 0 THEN <<s>>
        ELSE <<SliceTo(s, i)>> \o Split(SliceFrom(s, i + Len(sep)), sep)

\* strings.ToLower on ASCII
ToLowerChar(c) ==
    IF \E k \in 1..26 : UpperChars[k] = c
    THEN LowerChars[CHOOSE k \in 1..26 : UpperChars[k] = c]
    ELSE c

ToLower(s) == [k \in 1..Len(s) |-> ToLowerChar(s[k])]

\* strconv.Itoa for n >= 0
RECURSIVE Itoa(_)
Itoa(n) ==
    IF n < 10 THEN <<DigitChars[n + 1]>>
    ELSE Itoa(n \div 10) \o <<DigitChars[(n % 10) + 1]>>

\* net.JoinHostPort: a host holding a colon is an IPv6 literal and is bracketed
JoinHostPort(host, port) ==
    IF Contains(host, <<":">>)
    THEN <<"[">> \o host \o <<"]", ":">> \o port
    ELSE host \o <<":">> \o port

\* concatenation of a sequence of strings
RECURSIVE Concat(_)
Concat(parts) ==
    IF parts = <<>> THEN <<>> ELSE Head(parts) \o Concat(Tail(parts))

\* ------------------------------------------------------- configuration

\* flag -targetPort, default 9222
targetPort == 9222

\* "ws://"
SchemeWS == <<"w","s",":","/","/">>

\* "wss://"
SchemeWSS == <<"w","s","s",":","/","/">>

\* "localhost"
Localhost == <<"l","o","c","a","l","h","o","s","t">>

\* "127.0.0.1"
Loopback == <<"1","2","7",".","0",".","0",".","1">>

\* c.targetHostPort = net.JoinHostPort("localhost", strconv.Itoa(port))
targetHostPort == JoinHostPort(Localhost, Itoa(targetPort))

\* --------------------------------------------------- rewriteWebSocketURL

\* patterns := []string{ "ws://"+targetHostPort, "ws://127.0.0.1:"+port,
\*                       "ws://localhost:"+port }
Patterns(target) ==
    << SchemeWS \o target,
       SchemeWS \o Loopback \o <<":">> \o Split(target, <<":">>)[2],
       SchemeWS \o Localhost \o <<":">> \o Split(target, <<":">>)[2] >>

\* for _, pattern := range patterns { if strings.Contains(...) { return ... } }
RECURSIVE RewriteLoop(_, _, _, _)
RewriteLoop(url, patterns, k, public) ==
    IF k > Len(patterns) THEN url
    ELSE IF Contains(url, patterns[k])
         THEN Replace(url, patterns[k], SchemeWSS \o public, 1)
         ELSE RewriteLoop(url, patterns, k + 1, public)

rewriteWebSocketURL(url, target, public) ==
    RewriteLoop(url, Patterns(target), 1, public)

\* the warning of the fall-through path is logged exactly when no pattern occurs
rewriteWarns(url, target) ==
    \A k \in 1..Len(Patterns(target)) : ~Contains(url, Patterns(target)[k])

\* ------------------------------------------------ JSON documents (Go values)

(* A JSON scalar, and the Go value json.Unmarshal stores for it in an
   interface{}: t is "string" (s holds the characters), "number" (the literal
   is the integer hi * 10^8 + lo) or "null". *)
JStr(s) == [t |-> "string", s |-> s, hi |-> 0, lo |-> 0]

JNum(hi, lo) == [t |-> "number", s |-> <<>>, hi |-> hi, lo |-> lo]

JNull == [t |-> "null", s |-> <<>>, hi |-> 0, lo |-> 0]

\* an object with no member
EmptyObj == [x \in {} |-> JNull]

(* A document: k is "object" (obj maps each key to its scalar), "array" (arr
   is the sequence of entries), "null", "scalar" (a top-level number or
   string) or "garbage" (raw is text that is no JSON). An entry of an array
   is [k, obj] with k "object", "null" or "scalar". *)
DocObject(o) == [k |-> "object", obj |-> o, arr |-> <<>>, raw |-> <<>>]

DocArray(a) == [k |-> "array", obj |-> EmptyObj, arr |-> a, raw |-> <<>>]

DocNull == [k |-> "null", obj |-> EmptyObj, arr |-> <<>>, raw |-> <<>>]

DocScalar == [k |-> "scalar", obj |-> EmptyObj, arr |-> <<>>, raw |-> <<>>]

DocGarbage(text) == [k |-> "garbage", obj |-> EmptyObj, arr |-> <<>>, raw |-> text]

EntryObject(o) == [k |-> "object", obj |-> o]

EntryNull == [k |-> "null", obj |-> EmptyObj]

EntryScalar == [k |-> "scalar", obj |-> EmptyObj]

\* 2^53 = 90071992 * 10^8 + 54740992: up to it every integer is a float64
Pow53Hi == 90071992

Pow53Lo == 54740992

Pow8 == 100000000

(* strconv.ParseFloat(literal, 64) followed by the 'f' formatting of
   json.Marshal, for an integer literal below 2^54: exact up to 2^53; above,
   float64 holds the even integers only, and an odd one is rounded to the
   neighbour whose mantissa is even (the multiple of 4). *)
Float64(v) ==
    IF v.hi < Pow53Hi \/ (v.hi = Pow53Hi /\ v.lo <= Pow53Lo) THEN v
    ELSE IF v.lo % 2 = 0 THEN v
    ELSE IF (v.lo - 1) % 4 = 0 THEN JNum(v.hi, v.lo - 1)
    ELSE IF v.lo + 1 = Pow8 THEN JNum(v.hi + 1, 0)
    ELSE JNum(v.hi, v.lo + 1)

\* the interface{} stored for one scalar: float64 for a number
DecodeScalar(v) == IF v.t = "number" THEN Float64(v) ELSE v

\* map[string]interface{} of a JSON object
DecodeObject(o) == [key \in DOMAIN o |-> DecodeScalar(o[key])]

(* json.Unmarshal(body, &versionData) with versionData map[string]interface{}:
   ok is FALSE on a syntax error or a value that is no object; null leaves the
   map nil. *)
UnmarshalMap(doc) ==
    CASE doc.k = "object" -> [ok |-> TRUE, isNil |-> FALSE, m |-> DecodeObject(doc.obj)]
      [] doc.k = "null" -> [ok |-> TRUE, isNil |-> TRUE, m |-> EmptyObj]
      [] OTHER -> [ok |-> FALSE, isNil |-> TRUE, m |-> EmptyObj]

\* one element of []map[string]interface{}
DecodeEntry(e) ==
    IF e.k = "object" THEN [isNil |-> FALSE, m |-> DecodeObject(e.obj)]
    ELSE [isNil |-> TRUE, m |-> EmptyObj]

(* json.Unmarshal(body, &targetsData) with targetsData []map[string]interface{}:
   ok is FALSE on a syntax error, a value that is no array, or an entry that is
   neither an object nor null; null leaves the slice nil. *)
UnmarshalList(doc) ==
    CASE doc.k = "array" /\ (\A i \in 1..Len(doc.arr) : doc.arr[i].k # "scalar") ->
            [ok |-> TRUE, isNil |-> FALSE,
             l |-> [i \in 1..Len(doc.arr) |-> DecodeEntry(doc.arr[i])]]
      [] doc.k = "null" -> [ok |-> TRUE, isNil |-> TRUE, l |-> <<>>]
      [] OTHER -> [ok |-> FALSE, isNil |-> TRUE, l |-> <<>>]

\* json.Marshal of a map[string]interface{}: a nil map is written as null
MarshalMap(isNil, m) == IF isNil THEN DocNull ELSE DocObject(m)

MarshalEntry(e) == IF e.isNil THEN EntryNull ELSE EntryObject(e.m)

\* json.Marshal of a []map[string]interface{}: a nil slice is written as null
MarshalList(isNil, l) ==
    IF isNil THEN DocNull
    ELSE DocArray([i \in 1..Len(l) |-> MarshalEntry(l[i])])

\* ------------------------------------------------------------ the router

\* "/health"
PathHealth == <<"/","h","e","a","l","t","h">>

\* "/metrics"
PathMetrics == <<"/","m","e","t","r","i","c","s">>

\* "/json/version"
PathVersion == <<"/","j","s","o","n","/","v","e","r","s","i","o","n">>

\* "/json/version/"
PathVersionSlash == <<"/","j","s","o","n","/","v","e","r","s","i","o","n","/">>

\* "/json"
PathJson == <<"/","j","s","o","n">>

\* "/json/"
PathJsonSlash == <<"/","j","s","o","n","/">>

\* "/json/list"
PathJsonList == <<"/","j","s","o","n","/","l","i","s","t">>

\* "websocket"
TokWebsocket == <<"w","e","b","s","o","c","k","e","t">>

\* "upgrade"
TokUpgrade == <<"u","p","g","r","a","d","e">>

\* "Upgrade"
HdrUpgrade == <<"U","p","g","r","a","d","e">>

\* mutant: the header values are compared as written, letter case included
isWebSocketUpgrade_CaseSensitive(r) ==
    /\ r.upgrade = TokWebsocket
    /\ Contains(r.connection, TokUpgrade)

\* strings.ToLower(Upgrade) == "websocket" && strings.Contains(strings.ToLower(Connection), "upgrade")
isWebSocketUpgrade(r) ==
    /\ ToLower(r.upgrade) = TokWebsocket
    /\ Contains(ToLower(r.connection), TokUpgrade)

\* mutant: the list case of the switch does not look at the method
Route_NoMethodCheck(r) ==
    IF r.method = "GET" /\ r.path = PathHealth THEN "handleHealth"
    ELSE IF r.method = "GET" /\ r.path = PathMetrics THEN "handleMetrics"
    ELSE IF r.method = "GET" /\ (r.path = PathVersion \/ r.path = PathVersionSlash)
         THEN "handleJsonVersion"
    ELSE IF r.path = PathJson \/ r.path = PathJsonSlash \/ r.path = PathJsonList
         THEN "handleJsonList"
    ELSE IF isWebSocketUpgrade(r) THEN "proxyWebSocket"
    ELSE "proxy"

\* the switch of ServeHTTP: the first case that matches is taken
Route(r) ==
    IF r.method = "GET" /\ r.path = PathHealth THEN "handleHealth"
    ELSE IF r.method = "GET" /\ r.path = PathMetrics THEN "handleMetrics"
    ELSE IF r.method = "GET" /\ (r.path = PathVersion \/ r.path = PathVersionSlash)
         THEN "handleJsonVersion"
    ELSE IF r.method = "GET"
            /\ (r.path = PathJson \/ r.path = PathJsonSlash \/ r.path = PathJsonList)
         THEN "handleJsonList"
    ELSE IF isWebSocketUpgrade(r) THEN "proxyWebSocket"
    ELSE "proxy"

\* ------------------------------------------------------ the upstream client

\* "http://"
SchemeHTTP == <<"h","t","t","p",":","/","/">>

\* url.Error of c.client.Get: Get "<url>": <cause>
UrlErrorText(url, cause) ==
    <<"G","e","t"," ">> \o <<"\"">> \o url \o <<"\"">> \o <<":"," ">> \o cause

\* dial tcp 127.0.0.1:<port>: connect: connection refused
CauseRefused ==
    <<"d","i","a","l"," ","t","c","p"," ">> \o Loopback \o <<":">> \o Itoa(targetPort)
    \o <<":"," ","c","o","n","n","e","c","t",":"," ","c","o","n","n","e","c","t","i","o","n"," ","r","e","f","u","s","e","d">>

\* the client's Timeout ran out:
\* context deadline exceeded (Client.Timeout exceeded while awaiting headers)
CauseTimeout ==
    <<"c","o","n","t","e","x","t"," ","d","e","a","d","l","i","n","e"," ","e","x","c","e","e","d","e","d">>
    \o <<" ","(","C","l","i","e","n","t",".","T","i","m","e","o","u","t"," ","e","x","c","e","e","d","e","d"," ","w","h","i","l","e"," ","a","w","a","i","t","i","n","g"," ","h","e","a","d","e","r","s",")">>

\* io.ReadAll failed: the connection was lost inside the body
CauseReadFail == <<"u","n","e","x","p","e","c","t","e","d"," ","E","O","F">>

(* The outcome of one c.client.Get and io.ReadAll: "refused" and "timeout" are
   errors of Get, "readfail" an error of ReadAll, "ok" a body that was read. *)
NoFetch == [outcome |-> "none", doc |-> DocNull, status |-> 0]

FetchFailed(o) == [outcome |-> o, doc |-> DocNull, status |-> 0]

FetchOk(doc) == [outcome |-> "ok", doc |-> doc, status |-> 200]

\* resp.StatusCode of an answer whose body was read
UpstreamStatuses == {200, 500}

\* a body read from an answer of status code
FetchStatus(doc, code) == [FetchOk(doc) EXCEPT !.status = code]

GetFailed(f) == f.outcome \in {"refused", "timeout"}

GetErrorText(url, f) ==
    UrlErrorText(url, IF f.outcome = "refused" THEN CauseRefused ELSE CauseTimeout)

\* the error of json.Unmarshal, as err.Error() prints it
UnmarshalErrorText(doc, goType) ==
    IF doc.k = "garbage"
    THEN <<"i","n","v","a","l","i","d"," ","c","h","a","r","a","c","t","e","r"," ","'">> \o SubSeq(doc.raw, 1, 1)
         \o <<"'"," ","l","o","o","k","i","n","g"," ","f","o","r"," ","b","e","g","i","n","n","i","n","g"," ","o","f"," ","v","a","l","u","e">>
    ELSE <<"j","s","o","n",":"," ","c","a","n","n","o","t"," ","u","n","m","a","r","s","h","a","l"," ">>
         \o (CASE doc.k = "array" -> IF \E i \in 1..Len(doc.arr) : doc.arr[i].k = "scalar"
                                       THEN <<"n","u","m","b","e","r">> ELSE <<"a","r","r","a","y">>
               [] doc.k = "object" -> <<"o","b","j","e","c","t">>
               [] OTHER -> <<"n","u","m","b","e","r">>)
         \o <<" ","i","n","t","o"," ","G","o"," ","v","a","l","u","e"," ","o","f"," ","t","y","p","e"," ">> \o goType

\* --------------------------------------------------------------- responses

NoBody == [kind |-> "none", doc |-> DocNull, text |-> <<>>]

JsonBody(doc) == [kind |-> "json", doc |-> doc, text |-> <<>>]

TextBody(text) == [kind |-> "text", doc |-> DocNull, text |-> text]

\* the upstream's own response, streamed through by the forwarder
UpstreamBody == [kind |-> "upstream", doc |-> DocNull, text |-> <<>>]

(* a response: the status, the Content-Type, the Content-Length header when
   the handler sets one itself (-1 when it leaves it to net/http), the body *)
NoResponse == [status |-> 0, contentType |-> "", contentLength |-> -1, body |-> NoBody]

\* http.Error(w, msg, code): text/plain, the message and a newline
HttpError(msg, code) ==
    [status |-> code, contentType |-> "text/plain; charset=utf-8",
     contentLength |-> -1, body |-> TextBody(msg \o <<"\n">>)]

\* Content-Type: application/json, then json.NewEncoder(w).Encode: status 200
JsonOk(doc) ==
    [status |-> 200, contentType |-> "application/json", contentLength |-> -1,
     body |-> JsonBody(doc)]

\* ------------------------------------------------- json.Marshal, the bytes

\* the keys of the documents, in the order json.Marshal writes a map (sorted)
KeyOrder ==
    <<"Browser", "Protocol-Version", "devtoolsFrontendUrl", "id", "title",
      "webSocketDebuggerUrl">>

\* the characters of a key
KeyChars(key) ==
    CASE key = "Browser" -> <<"B","r","o","w","s","e","r">>
      [] key = "Protocol-Version" -> <<"P","r","o","t","o","c","o","l","-","V","e","r","s","i","o","n">>
      [] key = "devtoolsFrontendUrl" -> <<"d","e","v","t","o","o","l","s","F","r","o","n","t","e","n","d","U","r","l">>
      [] key = "id" -> <<"i","d">>
      [] key = "title" -> <<"t","i","t","l","e">>
      [] OTHER -> <<"w","e","b","S","o","c","k","e","t","D","e","b","u","g","g","e","r","U","r","l">>

(* one character of a string as json.Marshal writes it: the quote and the
   backslash are escaped, and so are <, > and & (EscapeHTML is on) *)
EncodeChar(c) ==
    CASE c = "\"" -> <<"\\", "\"">>
      [] c = "\\" -> <<"\\", "\\">>
      [] c = "<" -> <<"\\","u","0","0","3","c">>
      [] c = ">" -> <<"\\","u","0","0","3","e">>
      [] c = "&" -> <<"\\","u","0","0","2","6">>
      [] OTHER -> <<c>>

EncodeString(s) ==
    <<"\"">> \o Concat([i \in 1..Len(s) |-> EncodeChar(s[i])]) \o <<"\"">>

\* the low eight digits of a number, with their leading zeros
RECURSIVE PadLeft(_, _)
PadLeft(digits, width) ==
    IF Len(digits) >= width THEN digits ELSE PadLeft(<<"0">> \o digits, width)

\* a float64 holding an integer below 10^21 is written with all its digits
EncodeNumber(v) ==
    IF v.hi = 0 THEN Itoa(v.lo) ELSE Itoa(v.hi) \o PadLeft(Itoa(v.lo), Len(Itoa(Pow8)) - 1)

EncodeScalar(v) ==
    CASE v.t = "string" -> EncodeString(v.s)
      [] v.t = "number" -> EncodeNumber(v)
      [] OTHER -> <<"n","u","l","l">>

\* the members of o among the keys KeyOrder[k..], each after a comma but the first
RECURSIVE EncodeMembers(_, _, _)
EncodeMembers(o, k, first) ==
    IF k > Len(KeyOrder) THEN <<>>
    ELSE IF KeyOrder[k] \notin DOMAIN o THEN EncodeMembers(o, k + 1, first)
    ELSE (IF first THEN <<>> ELSE <<",">>)
         \o EncodeString(KeyChars(KeyOrder[k])) \o <<":">> \o EncodeScalar(o[KeyOrder[k]])
         \o EncodeMembers(o, k + 1, FALSE)

EncodeObject(o) == <<"{">> \o EncodeMembers(o, 1, TRUE) \o <<"}">>

EncodeEntry(e) == IF e.k = "object" THEN EncodeObject(e.obj) ELSE <<"n","u","l","l">>

RECURSIVE EncodeEntries(_, _)
EncodeEntries(arr, i) ==
    IF i > Len(arr) THEN <<>>
    ELSE (IF i = 1 THEN <<>> ELSE <<",">>) \o EncodeEntry(arr[i]) \o EncodeEntries(arr, i + 1)

\* newBody: the bytes json.Marshal returns for a document the handlers hold
Encode(doc) ==
    CASE doc.k = "object" -> EncodeObject(doc.obj)
      [] doc.k = "array" -> <<"[">> \o EncodeEntries(doc.arr, 1) \o <<"]">>
      [] OTHER -> <<"n","u","l","l">>

(* Content-Type: application/json, Content-Length: strconv.Itoa(len(newBody)),
   w.Write(newBody): status 200, the bytes of the document *)
WriteJson(doc) ==
    [status |-> 200, contentType |-> "application/json",
     contentLength |-> Len(Encode(doc)),
     body |-> [kind |-> "json", doc |-> doc, text |-> Encode(doc)]]

\* ------------------------------------------------- operational endpoints

\* time.Duration.String() of a whole number of seconds
DurationString(secs) == Itoa(secs) \o <<"s">>

(* handleHealth with the error of the Get tested for "connection refused"
   only: a fetch that times out is reported healthy. *)
handleHealth_RefusedOnly(f, elapsed) ==
    IF f.outcome = "refused"
    THEN [resp |-> [status |-> 503, contentType |-> "text/plain; charset=utf-8",
                    contentLength |-> -1,
                    body |-> JsonBody(DocObject(
                        [key \in {"status", "error"} |->
                            IF key = "status" THEN JStr(<<"u","n","h","e","a","l","t","h","y">>)
                            ELSE JStr(GetErrorText(SchemeHTTP \o targetHostPort \o PathVersion, f))]))],
          errs |-> 0, gets |-> 1]
    ELSE [resp |-> JsonOk(DocObject(
                        [key \in {"status", "uptime", "target", "timestamp"} |->
                            CASE key = "status" -> JStr(<<"h","e","a","l","t","h","y">>)
                              [] key = "uptime" -> JStr(DurationString(elapsed))
                              [] key = "target" -> JStr(targetHostPort)
                              [] OTHER -> JNum(0, elapsed)])),
          errs |-> 0, gets |-> 1]

(* handleHealth: one Get of /json/version, whose body is never read. f is the
   outcome of the fetch, elapsed the seconds since c.startTime (the process is
   started at Unix time 0). On failure WriteHeader(503) comes before any
   Content-Type is set, so the type is sniffed from the body. *)
handleHealth(f, elapsed) ==
    IF GetFailed(f)
    THEN [resp |-> [status |-> 503, contentType |-> "text/plain; charset=utf-8",
                    contentLength |-> -1,
                    body |-> JsonBody(DocObject(
                        [key \in {"status", "error"} |->
                            IF key = "status" THEN JStr(<<"u","n","h","e","a","l","t","h","y">>)
                            ELSE JStr(GetErrorText(SchemeHTTP \o targetHostPort \o PathVersion, f))]))],
          errs |-> 0, gets |-> 1]
    ELSE [resp |-> JsonOk(DocObject(
                        [key \in {"status", "uptime", "target", "timestamp"} |->
                            CASE key = "status" -> JStr(<<"h","e","a","l","t","h","y">>)
                              [] key = "uptime" -> JStr(DurationString(elapsed))
                              [] key = "target" -> JStr(targetHostPort)
                              [] OTHER -> JNum(0, elapsed)])),
          errs |-> 0, gets |-> 1]

(* handleMetrics that probes the upstream first, as handleHealth does, and
   answers 503 with no counters when the upstream is down *)
handleMetrics_Probes(requests, errors, elapsed) ==
    IF ~upstreamUp
    THEN [resp |-> [status |-> 503, contentType |-> "text/plain; charset=utf-8",
                    contentLength |-> -1,
                    body |-> NoBody],
          errs |-> 0, gets |-> 1]
    ELSE [resp |-> JsonOk(DocObject(
                 [key \in {"requests_total", "errors_total", "uptime_seconds", "target_host"} |->
                     CASE key = "requests_total" -> JNum(0, requests)
                       [] key = "errors_total" -> JNum(0, errors)
                       [] key = "uptime_seconds" -> JNum(0, elapsed)
                       [] OTHER -> JStr(targetHostPort)])),
          errs |-> 0, gets |-> 1]

\* handleMetrics: the counters as the handler reads them; no upstream request
handleMetrics(requests, errors, elapsed) ==
    [resp |-> JsonOk(DocObject(
                 [key \in {"requests_total", "errors_total", "uptime_seconds", "target_host"} |->
                     CASE key = "requests_total" -> JNum(0, requests)
                       [] key = "errors_total" -> JNum(0, errors)
                       [] key = "uptime_seconds" -> JNum(0, elapsed)
                       [] OTHER -> JStr(targetHostPort)])),
     errs |-> 0, gets |-> 0]

\* ---------------------------------------------------- discovery handlers

\* "Failed to get JSON version: "
MsgGetVersion == <<"F","a","i","l","e","d"," ","t","o"," ","g","e","t"," ","J","S","O","N"," ","v","e","r","s","i","o","n",":"," ">>

\* "Failed to get JSON list: "
MsgGetList == <<"F","a","i","l","e","d"," ","t","o"," ","g","e","t"," ","J","S","O","N"," ","l","i","s","t",":"," ">>

\* "Failed to read response body: "
MsgRead == <<"F","a","i","l","e","d"," ","t","o"," ","r","e","a","d"," ","r","e","s","p","o","n","s","e"," ","b","o","d","y",":"," ">>

\* "Failed to unmarshal response body: "
MsgUnmarshal == <<"F","a","i","l","e","d"," ","t","o"," ","u","n","m","a","r","s","h","a","l"," ","r","e","s","p","o","n","s","e"," ","b","o","d","y",":"," ">>

\* "map[string]interface {}"
TypeMap == <<"m","a","p","[","s","t","r","i","n","g","]","i","n","t","e","r","f","a","c","e"," ","{","}">>

\* "[]map[string]interface {}"
TypeList == <<"[","]","m","a","p","[","s","t","r","i","n","g","]","i","n","t","e","r","f","a","c","e"," ","{","}">>

\* "ws="
QueryWS == <<"w","s","=">>

\* if v, exists := m[key]; exists { if s, ok := v.(string); ok { ... } }
HasString(m, key) == key \in DOMAIN m /\ m[key].t = "string"

\* versionData["webSocketDebuggerUrl"] = rewriteWebSocketURL(...), when it is a string
RewriteVersion(m, public) ==
    IF HasString(m, "webSocketDebuggerUrl")
    THEN [m EXCEPT !["webSocketDebuggerUrl"] =
              JStr(rewriteWebSocketURL(@.s, targetHostPort, public))]
    ELSE m

(* handleJsonVersion announcing the length of the upstream's body instead of
   the length of the body it re-encoded *)
handleJsonVersion_UpstreamLength(r, f) ==
    LET url == SchemeHTTP \o targetHostPort \o PathVersion
        dec == UnmarshalMap(f.doc)
    IN  IF GetFailed(f)
        THEN [resp |-> HttpError(MsgGetVersion \o GetErrorText(url, f), 502),
              errs |-> 1, gets |-> 1]
        ELSE IF f.outcome = "readfail"
        THEN [resp |-> HttpError(MsgRead \o CauseReadFail, 500),
              errs |-> 1, gets |-> 1]
        ELSE IF ~dec.ok
        THEN [resp |-> HttpError(MsgUnmarshal \o UnmarshalErrorText(f.doc, TypeMap), 500),
              errs |-> 1, gets |-> 1]
        ELSE [resp |-> [WriteJson(MarshalMap(dec.isNil, RewriteVersion(dec.m, r.host)))
                            EXCEPT !.contentLength = Len(Encode(f.doc))],
              errs |-> 0, gets |-> 1]

(* a handleJsonVersion that stops asking the upstream once an error has
   been counted *)
handleJsonVersion_TripsAfterError(r, f) ==
    LET url == SchemeHTTP \o targetHostPort \o PathVersion
        dec == UnmarshalMap(f.doc)
    IN  IF errorCount > 0 \/ GetFailed(f)
        THEN [resp |-> HttpError(MsgGetVersion \o GetErrorText(url, f), 502),
              errs |-> 1, gets |-> 1]
        ELSE IF f.outcome = "readfail"
        THEN [resp |-> HttpError(MsgRead \o CauseReadFail, 500),
              errs |-> 1, gets |-> 1]
        ELSE IF ~dec.ok
        THEN [resp |-> HttpError(MsgUnmarshal \o UnmarshalErrorText(f.doc, TypeMap), 500),
              errs |-> 1, gets |-> 1]
        ELSE [resp |-> WriteJson(MarshalMap(dec.isNil, RewriteVersion(dec.m, r.host))),
              errs |-> 0, gets |-> 1]

(* handleJsonVersion: r is the request, f the outcome of the Get of
   http://<target>/json/version and of reading its body. *)
handleJsonVersion(r, f) ==
    LET url == SchemeHTTP \o targetHostPort \o PathVersion
        dec == UnmarshalMap(f.doc)
    IN  IF GetFailed(f)
        THEN [resp |-> HttpError(MsgGetVersion \o GetErrorText(url, f), 502),
              errs |-> 1, gets |-> 1]
        ELSE IF f.outcome = "readfail"
        THEN [resp |-> HttpError(MsgRead \o CauseReadFail, 500),
              errs |-> 1, gets |-> 1]
        ELSE IF ~dec.ok
        THEN [resp |-> HttpError(MsgUnmarshal \o UnmarshalErrorText(f.doc, TypeMap), 500),
              errs |-> 1, gets |-> 1]
        ELSE [resp |-> WriteJson(MarshalMap(dec.isNil, RewriteVersion(dec.m, r.host))),
              errs |-> 0, gets |-> 1]

\* the loop body replacing every "ws=<target>" of devtoolsFrontendUrl
RewriteDevtoolsFrontend_Every(m, public) ==
    IF HasString(m, "devtoolsFrontendUrl")
    THEN [m EXCEPT !["devtoolsFrontendUrl"] =
              JStr(Replace(@.s, QueryWS \o targetHostPort, QueryWS \o public, Len(@.s)))]
    ELSE m

\* target["devtoolsFrontendUrl"] = strings.Replace(s, "ws="+target, "ws="+public, 1)
RewriteDevtoolsFrontend(m, public) ==
    IF HasString(m, "devtoolsFrontendUrl")
    THEN [m EXCEPT !["devtoolsFrontendUrl"] =
              JStr(Replace(@.s, QueryWS \o targetHostPort, QueryWS \o public, 1))]
    ELSE m

\* the body of the loop over targetsData: devtoolsFrontendUrl, then webSocketDebuggerUrl
RewriteTarget(e, public) ==
    IF e.isNil THEN e
    ELSE [isNil |-> FALSE,
          m |-> RewriteVersion(RewriteDevtoolsFrontend(e.m, public), public)]

\* for i, target := range targetsData { ... }
RewriteTargets(l, public) == [i \in 1..Len(l) |-> RewriteTarget(l[i], public)]

(* handleJsonList that tries the Get a second time when it fails and then
   answers an empty list instead of an error *)
handleJsonList_EmptyOnFailure(r, f) ==
    LET dec == UnmarshalList(f.doc)
    IN  IF GetFailed(f)
        THEN [resp |-> WriteJson(DocArray(<<>>)), errs |-> 0, gets |-> 2]
        ELSE IF f.outcome = "readfail"
        THEN [resp |-> HttpError(MsgRead \o CauseReadFail, 500),
              errs |-> 1, gets |-> 1]
        ELSE IF ~dec.ok
        THEN [resp |-> HttpError(MsgUnmarshal \o UnmarshalErrorText(f.doc, TypeList), 500),
              errs |-> 1, gets |-> 1]
        ELSE [resp |-> WriteJson(MarshalList(dec.isNil, RewriteTargets(dec.l, r.host))),
              errs |-> 0, gets |-> 1]

\* a handleJsonList that passes the upstream's status code on
handleJsonList_RelaysStatus(r, f) ==
    LET url == SchemeHTTP \o targetHostPort \o r.path
        dec == UnmarshalList(f.doc)
    IN  IF GetFailed(f)
        THEN [resp |-> HttpError(MsgGetList \o GetErrorText(url, f), 502),
              errs |-> 1, gets |-> 1]
        ELSE IF f.outcome = "readfail"
        THEN [resp |-> HttpError(MsgRead \o CauseReadFail, 500),
              errs |-> 1, gets |-> 1]
        ELSE IF ~dec.ok
        THEN [resp |-> HttpError(MsgUnmarshal \o UnmarshalErrorText(f.doc, TypeList), 500),
              errs |-> 1, gets |-> 1]
        ELSE [resp |-> [WriteJson(MarshalList(dec.isNil, RewriteTargets(dec.l, r.host)))
                            EXCEPT !.status = f.status],
              errs |-> 0, gets |-> 1]

(* handleJsonList: r is the request, f the outcome of the Get of
   http://<target><r.URL.Path> and of reading its body. *)
handleJsonList(r, f) ==
    LET url == SchemeHTTP \o targetHostPort \o r.path
        dec == UnmarshalList(f.doc)
    IN  IF GetFailed(f)
        THEN [resp |-> HttpError(MsgGetList \o GetErrorText(url, f), 502),
              errs |-> 1, gets |-> 1]
        ELSE IF f.outcome = "readfail"
        THEN [resp |-> HttpError(MsgRead \o CauseReadFail, 500),
              errs |-> 1, gets |-> 1]
        ELSE IF ~dec.ok
        THEN [resp |-> HttpError(MsgUnmarshal \o UnmarshalErrorText(f.doc, TypeList), 500),
              errs |-> 1, gets |-> 1]
        ELSE [resp |-> WriteJson(MarshalList(dec.isNil, RewriteTargets(dec.l, r.host))),
              errs |-> 0, gets |-> 1]

\* ------------------------------------------------- transparent forwarder

\* strings.TrimSpace on blanks
RECURSIVE TrimLeft(_)
TrimLeft(s) == IF s # <<>> /\ Head(s) = " " THEN TrimLeft(Tail(s)) ELSE s

RECURSIVE TrimRight(_)
TrimRight(s) ==
    IF s # <<>> /\ s[Len(s)] = " " THEN TrimRight(SubSeq(s, 1, Len(s) - 1)) ELSE s

TrimSpace(s) == TrimRight(TrimLeft(s))

\* httpguts.HeaderValuesContainsToken: a comma-separated token, letter case ignored
HeaderContainsToken(value, token) ==
    LET parts == Split(value, <<",">>)
    IN  \E i \in 1..Len(parts) : ToLower(TrimSpace(parts[i])) = ToLower(token)

NoOutbound ==
    [method |-> "", path |-> <<>>, urlHost |-> <<>>, host |-> <<>>,
     upgrade |-> <<>>, connection |-> <<>>]

\* the Director of NewSingleHostReverseProxy alone, without the wrapper
Director_OriginalOnly(r) ==
    [method |-> r.method, path |-> r.path, urlHost |-> targetHostPort,
     host |-> r.host, upgrade |-> r.upgrade, connection |-> r.connection]

(* proxy.Director: originalDirector (of NewSingleHostReverseProxy) points
   req.URL at the target and leaves req.Host, the Host header that is sent, as
   the inbound request carried it; the wrapper then sets the two handshake
   headers of a WebSocket upgrade. *)
Director(r) ==
    [method |-> r.method, path |-> r.path, urlHost |-> targetHostPort,
     host |-> r.host,
     upgrade |-> IF isWebSocketUpgrade(r) THEN TokWebsocket ELSE r.upgrade,
     connection |-> IF isWebSocketUpgrade(r) THEN HdrUpgrade ELSE r.connection]

(* ReverseProxy.ServeHTTP after the Director: the hop-by-hop headers
   Connection and Upgrade are removed, and put back for a protocol upgrade
   (Connection holds the token Upgrade). *)
OutboundRequest(r) ==
    LET d == Director(r)
        upType == IF HeaderContainsToken(d.connection, HdrUpgrade) THEN d.upgrade ELSE <<>>
    IN  [d EXCEPT !.connection = IF upType # <<>> THEN HdrUpgrade ELSE <<>>,
                  !.upgrade = upType]

\* a forwarder that counts a failed upstream connection as an error
proxyServeHTTP_CountsBadGateway(r, up, status) ==
    IF up
    THEN [resp |-> [status |-> status, contentType |-> "", contentLength |-> -1,
                   body |-> UpstreamBody],
          errs |-> 0, gets |-> 0]
    ELSE [resp |-> [status |-> 502, contentType |-> "", contentLength |-> -1,
                   body |-> NoBody],
          errs |-> 1, gets |-> 0]

(* c.proxy.ServeHTTP: up is whether the upstream accepts the connection and
   status the status it answers; a transport error is answered 502 by the
   ReverseProxy's default ErrorHandler, with no body. *)
proxyServeHTTP(r, up, status) ==
    IF up
    THEN [resp |-> [status |-> status, contentType |-> "", contentLength |-> -1,
                   body |-> UpstreamBody],
          errs |-> 0, gets |-> 0]
    ELSE [resp |-> [status |-> 502, contentType |-> "", contentLength |-> -1,
                   body |-> NoBody],
          errs |-> 0, gets |-> 0]

\* ------------------------------------------------------ inputs of ServeHTTP

NoRequest ==
    [method |-> "", path |-> <<>>, host |-> <<>>, upgrade |-> <<>>, connection |-> <<>>]

\* "/devtools/page/A"
PathPageA == <<"/","d","e","v","t","o","o","l","s","/","p","a","g","e","/","A">>

\* "/json/new"
PathJsonNew == <<"/","j","s","o","n","/","n","e","w">>

Methods == {"GET", "POST"}

Paths ==
    { PathHealth, PathMetrics, PathVersion, PathVersionSlash, PathJson,
      PathJsonSlash, PathJsonList, PathJsonNew, PathPageA }

\* values of the request's Host header: "h.example", "9223-h.example"
PublicHosts == { <<"h",".","e","x","a","m","p","l","e">>, <<"9","2","2","3","-","h",".","e","x","a","m","p","l","e">> }

(* <<Upgrade, Connection>> headers: none; a WebSocket handshake; one in other
   letter case beside another token; Upgrade with no Connection: upgrade;
   an upgrade to another protocol; a Connection token that only contains
   "upgrade" *)
HeaderPairs ==
    { << <<>>, <<>> >>,
      << <<"w","e","b","s","o","c","k","e","t">>, <<"U","p","g","r","a","d","e">> >>,
      << <<"W","e","b","S","o","c","k","e","t">>, <<"k","e","e","p","-","a","l","i","v","e",","," ","U","P","G","R","A","D","E">> >>,
      << <<"w","e","b","s","o","c","k","e","t">>, <<"k","e","e","p","-","a","l","i","v","e">> >>,
      << <<"h","2","c">>, <<"U","p","g","r","a","d","e">> >>,
      << <<"w","e","b","s","o","c","k","e","t">>, <<"n","o","u","p","g","r","a","d","e">> >> }

Requests ==
    { [method |-> m, path |-> p, host |-> h, upgrade |-> hp[1], connection |-> hp[2]] :
        m \in Methods, p \in Paths, h \in PublicHosts, hp \in HeaderPairs }

\* webSocketDebuggerUrl values the upstream sends
WsUrls ==
    { SchemeWS \o Loopback \o <<":">> \o Itoa(targetPort) \o PathPageA,
      SchemeWS \o targetHostPort \o PathPageA,
      SchemeWS \o <<"1","0",".","0",".","0",".","5",":","9","2","2","2">> \o PathPageA,
      SchemeWS \o Loopback \o <<":">> \o Itoa(targetPort) \o PathPageA
          \o <<"?","u","=">> \o SchemeWS \o targetHostPort }

\* "/devtools/inspector.html?"
PathInspector == <<"/","d","e","v","t","o","o","l","s","/","i","n","s","p","e","c","t","o","r",".","h","t","m","l","?">>

\* values of a field the proxy does not know: a string, a small number, the
\* integer 2^53 + 1, null
OpaqueValues ==
    { JStr(<<"1",".","3">>), JNum(0, 138), JNum(Pow53Hi, Pow53Lo + 1), JNull }

\* every object over a subset of the keys, each key with one of its values
Objects(valuesOf) ==
    UNION { { o \in [S -> UNION { valuesOf[key] : key \in S }] :
                \A key \in S : o[key] \in valuesOf[key] } :
            S \in SUBSET (DOMAIN valuesOf) }

VersionObjects ==
    Objects([key \in {"Browser", "Protocol-Version", "webSocketDebuggerUrl"} |->
        CASE key = "Browser" -> { JStr(<<"C","h","r","o","m","e","/","1","3","8">>) }
          [] key = "Protocol-Version" -> OpaqueValues
          [] OTHER -> { JStr(u) : u \in WsUrls } \cup { JNum(0, 1), JNull }])

\* bodies the upstream answers on /json/version
VersionBodies ==
    { DocObject(o) : o \in VersionObjects }
    \cup { DocNull, DocScalar, DocArray(<<>>), DocGarbage(<<"<","h","t","m","l",">">>) }

\* entries of a target list
TargetEntries ==
    { EntryObject([key \in {"id", "devtoolsFrontendUrl", "webSocketDebuggerUrl"} |->
          CASE key = "id" -> JStr(<<"A">>)
            [] key = "devtoolsFrontendUrl" ->
                 JStr(PathInspector \o QueryWS \o targetHostPort \o PathPageA)
            [] OTHER -> JStr(SchemeWS \o targetHostPort \o PathPageA)]),
      EntryObject([key \in {"id", "devtoolsFrontendUrl", "webSocketDebuggerUrl"} |->
          CASE key = "id" -> JNum(Pow53Hi, Pow53Lo + 1)
            [] key = "devtoolsFrontendUrl" ->
                 JStr(PathInspector \o QueryWS \o Loopback \o <<":">>
                      \o Itoa(targetPort) \o PathPageA)
            [] OTHER -> JStr(SchemeWS \o Loopback \o <<":">> \o Itoa(targetPort) \o PathPageA)]),
      EntryObject([key \in {"id", "devtoolsFrontendUrl", "webSocketDebuggerUrl"} |->
          CASE key = "id" -> JNum(0, 138)
            [] key = "devtoolsFrontendUrl" -> JNum(0, 1)
            [] OTHER -> JNull]),
      EntryObject([key \in {"id", "devtoolsFrontendUrl"} |->
          IF key = "id" THEN JStr(<<"B">>)
          ELSE JStr(PathInspector \o QueryWS \o targetHostPort \o <<"&">>
                    \o QueryWS \o targetHostPort \o PathPageA)]),
      EntryObject([key \in {"id", "title"} |->
          IF key = "id" THEN JNum(Pow53Hi, Pow53Lo + 3) ELSE JStr(<<"a","b","o","u","t",":","b","l","a","n","k">>)]),
      EntryNull,
      EntryScalar }

\* bodies the upstream answers on /json, /json/ and /json/list
ListBodies ==
    { DocArray(a) : a \in UNION { [1..n -> TargetEntries] : n \in 0..MaxTargets } }
    \cup { DocNull, DocObject(EmptyObj), DocGarbage(<<"<","h","t","m","l",">">>) }

\* what one Get and ReadAll can come to, given the state of the upstream
FetchOutcomes(bodies) ==
    IF upstreamUp
    THEN { FetchStatus(d, code) : d \in bodies, code \in UpstreamStatuses }
         \cup { FetchFailed("timeout"), FetchFailed("readfail") }
    ELSE { FetchFailed("refused") }

\* statuses the upstream answers to a forwarded request
ForwardStatuses(r) ==
    IF OutboundRequest(r).upgrade # <<>> THEN {101, 403} ELSE {200, 404}

\* ------------------------------------------------------------- ServeHTTP

(* ServeHTTP, one request at a time: c.requestCount++, then the handler h the
   switch selects; res is what the handler did, f its fetch, out the request it
   forwarded. The variables of the request hold until ServeHTTP returns
   (handler is "none" between two requests). *)
Served(r, h, f, res, out) ==
    /\ requestCount' = requestCount + 1
    /\ errorCount' = errorCount + res.errs
    /\ request' = r
    /\ handler' = h
    /\ fetched' = f
    /\ gets' = res.gets
    /\ outbound' = out
    /\ response' = res.resp
    /\ UNCHANGED <<upstreamUp, conns, rwVars, tmVars, agVars>>

ServeHealth ==
    /\ handler = "none"
    /\ requestCount < MaxRequests
    /\ \E r \in Requests, f \in FetchOutcomes({DocObject(EmptyObj)}), e \in 0..MaxElapsed :
        /\ Route(r) = "handleHealth"
        /\ Served(r, "handleHealth", f, handleHealth(f, e), NoOutbound)

ServeMetrics ==
    /\ handler = "none"
    /\ requestCount < MaxRequests
    /\ \E r \in Requests, e \in 0..MaxElapsed :
        /\ Route(r) = "handleMetrics"
        /\ Served(r, "handleMetrics", NoFetch,
                  handleMetrics(requestCount + 1, errorCount, e), NoOutbound)

ServeJsonVersion ==
    /\ handler = "none"
    /\ requestCount < MaxRequests
    /\ \E r \in Requests, f \in FetchOutcomes(VersionBodies) :
        /\ Route(r) = "handleJsonVersion"
        /\ Served(r, "handleJsonVersion", f, handleJsonVersion(r, f), NoOutbound)

ServeJsonList ==
    /\ handler = "none"
    /\ requestCount < MaxRequests
    /\ \E r \in Requests, f \in FetchOutcomes(ListBodies) :
        /\ Route(r) = "handleJsonList"
        /\ Served(r, "handleJsonList", f, handleJsonList(r, f), NoOutbound)

ServeWebSocket ==
    /\ handler = "none"
    /\ requestCount < MaxRequests
    /\ \E r \in Requests :
        /\ Route(r) = "proxyWebSocket"
        /\ \E s \in ForwardStatuses(r) :
            Served(r, "proxyWebSocket", NoFetch,
                   proxyServeHTTP(r, upstreamUp, s), OutboundRequest(r))

ServeProxy ==
    /\ handler = "none"
    /\ requestCount < MaxRequests
    /\ \E r \in Requests :
        /\ Route(r) = "proxy"
        /\ \E s \in ForwardStatuses(r) :
            Served(r, "proxy", NoFetch,
                   proxyServeHTTP(r, upstreamUp, s), OutboundRequest(r))

\* ServeHTTP returns: the request and what was computed for it are gone
ServeReturn ==
    /\ handler # "none"
    /\ request' = NoRequest
    /\ handler' = "none"
    /\ fetched' = NoFetch
    /\ gets' = 0
    /\ outbound' = NoOutbound
    /\ response' = NoResponse
    /\ UNCHANGED <<requestCount, errorCount, upstreamUp, conns, rwVars, tmVars, agVars>>

\* the debugged process stops or starts, between two requests
UpstreamToggle ==
    /\ handler = "none"
    /\ upstreamUp' = ~upstreamUp
    /\ UNCHANGED <<requestCount, errorCount, request, handler, fetched, gets,
                   outbound, response, conns, rwVars, tmVars, agVars>>

Clients == 1..NumClients

\* the server before its first request
SrvIdle ==
    /\ requestCount = 0
    /\ errorCount = 0
    /\ upstreamUp = TRUE
    /\ request = NoRequest
    /\ handler = "none"
    /\ fetched = NoFetch
    /\ gets = 0
    /\ outbound = NoOutbound
    /\ response = NoResponse

\* the rewriter harness is not running
RwOff ==
    /\ originalURL = <<>>
    /\ publicHostPort = <<>>
    /\ newURL = <<>>
    /\ newURL2 = <<>>
    /\ rwPc = "off"

\* no connection is open
NoConn == [pc |-> "idle", req |-> NoRequest, tmp |-> 0, resp |-> NoResponse]

ConnsOff == conns = [g \in Clients |-> NoConn]

\* no request on the timed connection
NoCall ==
    [pc |-> "idle", req |-> NoRequest, writeDeadline |-> 0, getDeadline |-> 0,
     fetch |-> NoFetch, resp |-> NoResponse, delivered |-> FALSE]

TmOff == clock = 0 /\ call = NoCall

\* no model response yet in this chat() call
NoReply == [stop |-> "", content |-> <<>>]

(* the SandboxAgent as constructed: this.messages = [], no chat() running.
   pc is where chat() is: "idle" (not running), "stream" (about to call
   streamResponse), "tools" (inside processToolCalls). *)
NewAgent ==
    [messages |-> <<>>, pc |-> "idle", outcome |-> "none", reply |-> NoReply,
     i |-> 0, toolResults |-> <<>>, executed |-> <<>>, chats |-> 0, modelCalls |-> 0]

(* the agent after initialize(): sandbox 1 was created and lives, no server
   was started. The agent's fields are sandbox, serverHandle (a pid),
   previewUrl (the sandbox whose host it names) and browserOpened, 0 for null.
   pc is where the main flow is, callSb and callPid what the request in flight
   was sent to, html whether the file being written ends in ".html"; timers
   are the restarts scheduled by write_file; live, created and procs are the
   platform's sandboxes and the server processes in them (the pid is the
   index); asked is the sandbox whose timeout this chat asked to refresh and
   error the message it caught; refreshed, pushed, tool, entry, started and
   result record what happened, for the properties. *)
NewBox ==
    [sandbox |-> 1, serverHandle |-> 0, previewUrl |-> 0, browserOpened |-> FALSE,
     pc |-> "idle", callSb |-> 0, callPid |-> 0, html |-> FALSE,
     timers |-> <<>>,
     live |-> {1}, created |-> 1, procs |-> <<>>,
     chats |-> 0, toolCalls |-> 0,
     asked |-> 0, error |-> <<>>, refreshed |-> FALSE, pushed |-> FALSE,
     tool |-> "", entry |-> [previewUrl |-> 0, serverHandle |-> 0, procs |-> 0],
     started |-> 0, result |-> ""]

\* waitForServer is not running
NoWait ==
    [pc |-> "off", maxRetries |-> 0, i |-> 0, requests |-> 0, answers |-> <<>>,
     returned |-> "none"]

\* runInteractiveMode has not begun
NoMain ==
    [pc |-> "off", hasApiKey |-> FALSE, sandbox |-> FALSE, serverHandle |-> FALSE,
     commands |-> 0, cause |-> "", cleanup |-> "none", serverKill |-> "none",
     sandboxKill |-> "none"]

AgOff == agent = NewAgent /\ box = NewBox /\ wait = NoWait /\ main = NoMain

SrvInit == SrvIdle /\ ConnsOff /\ RwOff /\ TmOff /\ AgOff

SrvNext ==
    \/ ServeHealth
    \/ ServeMetrics
    \/ ServeJsonVersion
    \/ ServeJsonList
    \/ ServeWebSocket
    \/ ServeProxy
    \/ ServeReturn
    \/ UpstreamToggle

SpecServe == SrvInit /\ [][SrvNext]_vars

\* ------------------------------------------- ServeHTTP, concurrently

(* net/http runs ServeHTTP in one goroutine per connection. c.requestCount++
   and c.errorCount++ are plain int64 increments, a load and a store with no
   synchronization, so the goroutines interleave between the two. *)

\* requests of the concurrent connections: one per case of the switch
ConcRequests ==
    { r \in Requests :
        /\ r.host = <<"h",".","e","x","a","m","p","l","e">>
        /\ r.upgrade = <<>>
        /\ \/ r.method = "GET" /\ r.path \in {PathHealth, PathMetrics, PathVersion, PathJson}
           \/ r.method = "POST" /\ r.path = PathJsonNew }

\* bodies the upstream answers to the concurrent connections
ConcBodies(r) ==
    IF Route(r) = "handleJsonList"
    THEN { DocArray(<<>>), DocGarbage(<<"<","h","t","m","l",">">>) }
    ELSE { DocObject(EmptyObj), DocGarbage(<<"<","h","t","m","l",">">>) }

\* what the handler of r does, given the outcome f of its fetch
RunHandler(r, f) ==
    CASE Route(r) = "handleHealth" -> handleHealth(f, 0)
      [] Route(r) = "handleMetrics" -> handleMetrics(requestCount, errorCount, 0)
      [] Route(r) = "handleJsonVersion" -> handleJsonVersion(r, f)
      [] Route(r) = "handleJsonList" -> handleJsonList(r, f)
      [] OTHER -> proxyServeHTTP(r, upstreamUp, 200)

\* c.requestCount++, the load: the connection's request arrives
LoadRequestCount(g) ==
    /\ conns[g].pc = "idle"
    /\ \E r \in ConcRequests :
        conns' = [conns EXCEPT ![g] = [NoConn EXCEPT !.pc = "storeRC", !.req = r,
                                                     !.tmp = requestCount]]
    /\ UNCHANGED <<srvVars, rwVars, tmVars, agVars>>

\* c.requestCount++, the store
StoreRequestCount(g) ==
    /\ conns[g].pc = "storeRC"
    /\ requestCount' = conns[g].tmp + 1
    /\ conns' = [conns EXCEPT ![g].pc = "handle"]
    /\ UNCHANGED <<errorCount, upstreamUp, request, handler, fetched, gets,
                   outbound, response, rwVars, tmVars, agVars>>

(* the handler the switch selects, up to its c.errorCount++ if it has one: the
   response is computed here and written when the goroutine is done *)
Handle(g) ==
    /\ conns[g].pc = "handle"
    /\ \E f \in FetchOutcomes(ConcBodies(conns[g].req)) :
        LET res == RunHandler(conns[g].req, f)
        IN  conns' = [conns EXCEPT ![g].pc = IF res.errs = 1 THEN "loadEC" ELSE "done",
                                   ![g].resp = res.resp]
    /\ UNCHANGED <<srvVars, rwVars, tmVars, agVars>>

\* c.errorCount++, the load
LoadErrorCount(g) ==
    /\ conns[g].pc = "loadEC"
    /\ conns' = [conns EXCEPT ![g].pc = "storeEC", ![g].tmp = errorCount]
    /\ UNCHANGED <<srvVars, rwVars, tmVars, agVars>>

\* c.errorCount++, the store; http.Error follows
StoreErrorCount(g) ==
    /\ conns[g].pc = "storeEC"
    /\ errorCount' = conns[g].tmp + 1
    /\ conns' = [conns EXCEPT ![g].pc = "done"]
    /\ UNCHANGED <<requestCount, upstreamUp, request, handler, fetched, gets,
                   outbound, response, rwVars, tmVars, agVars>>

\* the debugged process stops or starts while connections are served
ConcUpstreamToggle ==
    /\ upstreamUp' = ~upstreamUp
    /\ UNCHANGED <<requestCount, errorCount, request, handler, fetched, gets,
                   outbound, response, conns, rwVars, tmVars, agVars>>

ConcNext ==
    \/ \E g \in Clients :
        \/ LoadRequestCount(g)
        \/ StoreRequestCount(g)
        \/ Handle(g)
        \/ LoadErrorCount(g)
        \/ StoreErrorCount(g)
    \/ ConcUpstreamToggle

SpecConc == SrvInit /\ [][ConcNext]_vars

\* -------------------------------------- ServeHTTP, with the server's timers

(* main gives the http.Server ReadTimeout and WriteTimeout of `timeout`
   seconds and NewChromeDevToolsClient gives the http.Client a Timeout of the
   same `timeout` seconds. The server sets the connection's write deadline to
   now + WriteTimeout when it has read the request's header, before ServeHTTP
   runs; the client's Timeout runs from the call of Get inside the handler.
   The handler's response is buffered and written to the connection when
   ServeHTTP has returned; a write at or after the write deadline fails and
   the server closes the connection. Time passes in whole seconds, while the
   connection is idle or a handler waits in Get. *)

\* flag "timeout": HTTP client timeout in seconds, also the server's timeouts
timeout == 30

\* requests of the timed connection: one GET per handler of the proxy's own
TimedRequests ==
    { r \in Requests :
        /\ r.host = <<"h",".","e","x","a","m","p","l","e">>
        /\ r.upgrade = <<>>
        /\ r.method = "GET"
        /\ r.path \in {PathHealth, PathMetrics, PathVersion, PathJson} }

\* whether the handler of r waits for the upstream (all but handleMetrics do)
Fetches(r) == Route(r) \in {"handleHealth", "handleJsonVersion", "handleJsonList"}

(* the server has read the header of a request: the write deadline is set,
   ServeHTTP is entered, c.requestCount++, and a handler that fetches calls
   c.client.Get, which starts the client's timer *)
ReadRequest ==
    /\ call.pc = "idle"
    /\ requestCount < MaxRequests
    /\ \E r \in TimedRequests :
        call' = [NoCall EXCEPT !.pc = "serving", !.req = r,
                               !.writeDeadline = clock + timeout,
                               !.getDeadline = clock + timeout]
    /\ requestCount' = requestCount + 1
    /\ UNCHANGED <<errorCount, upstreamUp, request, handler, fetched, gets,
                   outbound, response, conns, rwVars, clock, agVars>>

\* the handler has its outcome f of the fetch, or needs none: it writes its response
HandlerWrites(f) ==
    LET res == RunHandler(call.req, f)
    IN  /\ call' = [call EXCEPT !.pc = "written", !.fetch = f, !.resp = res.resp]
        /\ errorCount' = errorCount + res.errs
        /\ UNCHANGED <<requestCount, upstreamUp, request, handler, fetched, gets,
                       outbound, response, conns, rwVars, clock, agVars>>

\* handleMetrics: no fetch
TimedMetrics ==
    /\ call.pc = "serving"
    /\ ~Fetches(call.req)
    /\ HandlerWrites(NoFetch)

\* Get returns before the client's Timeout: the upstream answered, or refused
GetReturns ==
    /\ call.pc = "serving"
    /\ Fetches(call.req)
    /\ clock < call.getDeadline
    /\ \E f \in (IF upstreamUp
                 THEN { FetchOk(d) : d \in ConcBodies(call.req) } \cup { FetchFailed("readfail") }
                 ELSE { FetchFailed("refused") }) :
        HandlerWrites(f)

\* the client's Timeout runs out: Get returns its error
GetTimesOut ==
    /\ call.pc = "serving"
    /\ Fetches(call.req)
    /\ clock >= call.getDeadline
    /\ HandlerWrites(FetchFailed("timeout"))

(* ServeHTTP has returned and the server flushes the buffered response to the
   connection: the write succeeds before the write deadline only *)
FinishRequest ==
    /\ call.pc = "written"
    /\ call' = [call EXCEPT !.pc = "finished", !.delivered = clock < call.writeDeadline]
    /\ UNCHANGED <<srvVars, conns, rwVars, clock, agVars>>

\* the connection is ready for its next request, or was closed and reopened
NextRequest ==
    /\ call.pc = "finished"
    /\ call' = NoCall
    /\ UNCHANGED <<srvVars, conns, rwVars, clock, agVars>>

(* a second passes: on an idle connection, or while the handler waits for an
   upstream that accepted the connection and has not answered *)
Tick ==
    /\ clock < MaxClock
    /\ \/ call.pc = "idle"
       \/ /\ call.pc = "serving"
          /\ Fetches(call.req)
          /\ upstreamUp
          /\ clock < call.getDeadline
    /\ clock' = clock + 1
    /\ UNCHANGED <<srvVars, conns, rwVars, call, agVars>>

\* the debugged process stops or starts, between two requests
TimedUpstreamToggle ==
    /\ call.pc = "idle"
    /\ upstreamUp' = ~upstreamUp
    /\ UNCHANGED <<requestCount, errorCount, request, handler, fetched, gets,
                   outbound, response, conns, rwVars, tmVars, agVars>>

TimedNext ==
    \/ ReadRequest
    \/ TimedMetrics
    \/ GetReturns
    \/ GetTimesOut
    \/ FinishRequest
    \/ NextRequest
    \/ Tick
    \/ TimedUpstreamToggle

SpecTimed == SrvInit /\ [][TimedNext]_vars

\* ------------------------------------------ inputs of the rewriter harness

\* the three recognized internal prefixes, as the claims name them
InternalPrefixes ==
    { SchemeWS \o targetHostPort,
      SchemeWS \o Loopback \o <<":">> \o Itoa(targetPort),
      SchemeWS \o Localhost \o <<":">> \o Itoa(targetPort) }

\* pieces an input URL is built from
UrlParts ==
    InternalPrefixes \cup
    { PathPageA, <<"0">>, <<"?","u","=">>, SchemeWSS, <<"h",".","e","x","a","m","p","l","e">> }

UrlInputs ==
    { Concat(p) : p \in UNION { [1..n -> UrlParts] : n \in 0..MaxUrlParts } }

RwInit ==
    /\ SrvIdle
    /\ ConnsOff
    /\ TmOff
    /\ AgOff
    /\ originalURL \in UrlInputs
    /\ publicHostPort \in PublicHosts
    /\ newURL = <<>>
    /\ newURL2 = <<>>
    /\ rwPc = "input"

\* newURL := rewriteWebSocketURL(wsURLStr, c.targetHostPort, publicHostPort)
RewriteOnce ==
    /\ rwPc = "input"
    /\ newURL' = rewriteWebSocketURL(originalURL, targetHostPort, publicHostPort)
    /\ rwPc' = "once"
    /\ UNCHANGED <<originalURL, publicHostPort, newURL2, srvVars, conns, tmVars, agVars>>

\* the function applied to its own output
RewriteTwice ==
    /\ rwPc = "once"
    /\ newURL2' = rewriteWebSocketURL(newURL, targetHostPort, publicHostPort)
    /\ rwPc' = "twice"
    /\ UNCHANGED <<originalURL, publicHostPort, newURL, srvVars, conns, tmVars, agVars>>

RwNext == RewriteOnce \/ RewriteTwice

SpecRewrite == RwInit /\ [][RwNext]_vars

\* ------------------------------------------------ SandboxAgent.chat

(* agent.ts. A message is [role, kind, content]: kind "text" for the user's
   input, "continue" for the continuation prompt, "content" for an assistant
   message and "tool_result" for the user message of tool results. A block is
   [type, id, name, result]. *)

TextBlock == [type |-> "text", id |-> 0, name |-> "", result |-> ""]

ToolUse(id, name) == [type |-> "tool_use", id |-> id, name |-> name, result |-> ""]

ToolResult(id, result) == [type |-> "tool_result", id |-> id, name |-> "", result |-> result]

\* { role: "user", content: userMessage }
UserMessage == [role |-> "user", kind |-> "text", content |-> <<>>]

\* { role: "user", content: "请继续输出，..." }
ContinueMessage == [role |-> "user", kind |-> "continue", content |-> <<>>]

\* { role: "assistant", content: assistantContent }
AssistantMessage(content) == [role |-> "assistant", kind |-> "content", content |-> content]

\* { role: "user", content: toolResults }
ToolResultsMessage(results) == [role |-> "user", kind |-> "tool_result", content |-> results]

\* registerToolHandlers
RegisteredTools == {"write_file", "get_preview_url"}

\* contents streamResponse assembles: text and tool_use blocks in any mix
Contents ==
    { <<>>,
      <<TextBlock>>,
      <<ToolUse(1, "write_file")>>,
      <<TextBlock, ToolUse(1, "get_preview_url")>>,
      <<ToolUse(1, "write_file"), ToolUse(2, "delete_file")>>,
      <<ToolUse(1, "write_file"), TextBlock, ToolUse(2, "get_preview_url")>> }

\* stop_reason of the message_delta event
StopReasons == {"end_turn", "tool_use", "max_tokens", "stop_sequence"}

\* what streamResponse returns
Replies == { [stop |-> st, content |-> c] : st \in StopReasons, c \in Contents }

\* positions of the tool_use blocks of a content, in order
RECURSIVE ToolPositions(_, _)
ToolPositions(content, from) ==
    IF from > Len(content) THEN <<>>
    ELSE IF content[from].type = "tool_use"
         THEN <<from>> \o ToolPositions(content, from + 1)
         ELSE ToolPositions(content, from + 1)

\* ids of the tool_use blocks of a content, in order
ToolIds(content) ==
    LET ps == ToolPositions(content, 1) IN [k \in 1..Len(ps) |-> content[ps[k]].id]

\* a dispatcher that reports success for a name it has no handler for
executeTool_AnyName(name, threw) ==
    IF threw THEN "error" ELSE "ok"

(* executeTool: an unknown name and a handler that throws both give an error
   string; threw is whether the handler of a registered tool throws *)
executeTool(name, threw) ==
    IF name \notin RegisteredTools THEN "unknown tool"
    ELSE IF threw THEN "error" ELSE "ok"

\* the loop goes on after tool calls when continueLoop stays true
continueLoop_IgnoresEndTurn(stopReason, hasToolUse, nResults) ==
    hasToolUse /\ nResults > 0

(* continueLoop at the end of one pass of the while loop of chat: set from
   hasToolUse && toolResults.length > 0, then cleared when stop_reason is
   "end_turn" *)
continueLoop(stopReason, hasToolUse, nResults) ==
    IF stopReason = "end_turn" THEN FALSE
    ELSE hasToolUse /\ nResults > 0

(* chat(userMessage) up to the while loop: ensureAnthropicClient, await
   refreshSandboxTimeout (which throws when the sandbox cannot be created
   again: chat rejects with no message added), then the user message *)
ChatStart ==
    /\ agent.pc = "idle"
    /\ agent.chats < MaxChats
    /\ \E refreshed \in BOOLEAN :
        agent' = IF refreshed
                 THEN [agent EXCEPT !.chats = @ + 1, !.pc = "stream", !.outcome = "none",
                                    !.reply = NoReply, !.i = 0, !.toolResults = <<>>,
                                    !.executed = <<>>,
                                    !.messages = Append(@, UserMessage)]
                 ELSE [agent EXCEPT !.chats = @ + 1, !.outcome = "rejected",
                                    !.reply = NoReply, !.i = 0, !.toolResults = <<>>,
                                    !.executed = <<>>]
    /\ UNCHANGED <<srvVars, conns, rwVars, tmVars, box, cliVars>>

\* the end of one pass of the loop, given the messages so far
LoopEnd(a, msgs, hasToolUse, results) ==
    LET goOn == continueLoop(a.reply.stop, hasToolUse, Len(results))
    IN  [a EXCEPT !.messages = IF hasToolUse /\ Len(results) > 0
                               THEN Append(msgs, ToolResultsMessage(results))
                               ELSE msgs,
                  !.toolResults = results,
                  !.pc = IF goOn THEN "stream" ELSE "idle",
                  !.outcome = IF goOn THEN "none" ELSE "resolved"]

(* one pass of the loop up to its first await of a tool: streamResponse
   returns, the assistant message is pushed; on max_tokens the continuation
   prompt is pushed and the loop continues; otherwise processToolCalls
   starts, and ends at once when the content has no tool_use block *)
StreamResponse ==
    /\ agent.pc = "stream"
    /\ agent.modelCalls < MaxModelCalls
    /\ \E reply \in Replies :
        LET a == [agent EXCEPT !.modelCalls = @ + 1, !.reply = reply, !.i = 0,
                               !.toolResults = <<>>, !.executed = <<>>]
            msgs == Append(agent.messages, AssistantMessage(reply.content))
        IN  agent' =
              IF reply.stop = "max_tokens"
              THEN [a EXCEPT !.messages = Append(msgs, ContinueMessage)]
              ELSE IF ToolPositions(reply.content, 1) = <<>>
              THEN LoopEnd(a, msgs, FALSE, <<>>)
              ELSE [a EXCEPT !.messages = msgs, !.pc = "tools"]
    /\ UNCHANGED <<srvVars, conns, rwVars, tmVars, box, cliVars>>

\* the model stream throws (network, API error): chat rejects
StreamThrows ==
    /\ agent.pc = "stream"
    /\ agent' = [agent EXCEPT !.pc = "idle", !.outcome = "rejected"]
    /\ UNCHANGED <<srvVars, conns, rwVars, tmVars, box, cliVars>>

(* processToolCalls, one tool_use block: await executeTool, push its
   tool_result; after the last block the loop pass ends *)
ExecuteTool ==
    /\ agent.pc = "tools"
    /\ \E threw \in BOOLEAN :
        LET ps == ToolPositions(agent.reply.content, agent.i + 1)
            block == agent.reply.content[ps[1]]
            results == Append(agent.toolResults,
                              ToolResult(block.id, executeTool(block.name, threw)))
            a == [agent EXCEPT !.i = ps[1], !.executed = Append(@, block.id),
                               !.toolResults = results]
        IN  /\ threw => block.name \in RegisteredTools
            /\ agent' = IF Len(ps) = 1
                        THEN LoopEnd(a, agent.messages, TRUE, results)
                        ELSE a
    /\ UNCHANGED <<srvVars, conns, rwVars, tmVars, box, cliVars>>

ChatNext ==
    \/ ChatStart
    \/ StreamResponse
    \/ StreamThrows
    \/ ExecuteTool

SpecChat == SrvInit /\ [][ChatNext]_vars

\* ------------------------------ SandboxAgent: the sandbox and its server

(* agent.ts. The main flow (chat, the tool handlers) and the callbacks of
   setTimeout run on one event loop: each action below is what runs between
   two awaits, from the completion of the awaited request (whose effect on the
   platform happens in the same step) to the sending of the next one. The
   platform's side changes on its own: a server process exits, a server
   starts to answer, the platform destroys an expired sandbox. *)

\* messages of the error sandbox.setTimeout rejects with
MsgStatus404 == <<"4","0","4",":"," ","s","a","n","d","b","o","x"," ","g","o","n","e">>

MsgNotFound == <<"s","a","n","d","b","o","x"," ","n","o","t"," ","f","o","u","n","d">>

MsgTitleNotFound == <<"S","a","n","d","b","o","x"," ","N","o","t"," ","F","o","u","n","d">>

MsgFetchFailed == <<"f","e","t","c","h"," ","f","a","i","l","e","d">>

\* a test that looks for the status code only
mentionsDestroyed_StatusOnly(errorMessage) ==
    Contains(errorMessage, <<"4","0","4">>)

\* errorMessage.includes("404") || errorMessage.includes("not found")
mentionsDestroyed(errorMessage) ==
    \/ Contains(errorMessage, <<"4","0","4">>)
    \/ Contains(errorMessage, <<"n","o","t"," ","f","o","u","n","d">>)

(* what sandbox.setTimeout comes to: <<>> is success; a destroyed sandbox is
   reported in the platform's words, and the request can fail on the way *)
SetTimeoutOutcomes(b) ==
    IF b.callSb \in b.live
    THEN { <<>>, MsgFetchFailed }
    ELSE { MsgStatus404, MsgNotFound, MsgTitleNotFound, MsgFetchFailed }

\* a server process as the platform holds it
NewProcess(s, who) ==
    [sb |-> s, alive |-> TRUE, ready |-> FALSE, by |-> who,
     killedBy |-> "", killer |-> 0, passed |-> FALSE, after |-> 0]

\* the processes that hold the port open in sandbox s
Listening(procs, s) ==
    { p \in DOMAIN procs : procs[p].sb = s /\ procs[p].alive /\ procs[p].ready }

(* killPortProcess, on the platform: lsof -ti :port | xargs -r kill -9 in
   sandbox s; nothing happens when the sandbox is gone (the error is caught).
   who and t say which code sent it, t the timer if it was one. *)
killPortProcess(procs, live, s, who, t) ==
    IF s \notin live THEN procs
    ELSE [p \in DOMAIN procs |->
            IF p \in Listening(procs, s)
            THEN [procs[p] EXCEPT !.alive = FALSE, !.ready = FALSE,
                                  !.killedBy = who, !.killer = t]
            ELSE procs[p]]

\* serverHandle.kill(), on the platform
killHandle(procs, live, pid, who) ==
    IF procs[pid].sb \notin live \/ ~procs[pid].alive THEN procs
    ELSE [procs EXCEPT ![pid] = [@ EXCEPT !.alive = FALSE, !.ready = FALSE,
                                          !.killedBy = who]]

\* checkServerProcessAlive, the answer of kill -0 <pid> sent to callSb
checkServerProcessAlive(b) == b.callSb \in b.live /\ b.procs[b.callPid].alive

\* a health check that gives up before the first answer
waitForServer_GivesUp(b, s) == FALSE

\* waitForServer: whether a HEAD request of the preview URL of sandbox s is answered ok
waitForServer(b, s) == s \in b.live /\ Listening(b.procs, s) # {}

\* the server that answered a health check of sandbox s passed it
Passed(b, s) ==
    [b EXCEPT !.procs = [p \in DOMAIN b.procs |->
                            IF p \in Listening(b.procs, s)
                            THEN [b.procs[p] EXCEPT !.passed = TRUE]
                            ELSE b.procs[p]]]

\* clearSandboxState
clearSandboxState(b) ==
    [b EXCEPT !.sandbox = 0, !.serverHandle = 0, !.previewUrl = 0,
              !.browserOpened = FALSE]

\* setTimeout(() => this.restartServer(), 5000)
ScheduleRestart(b) ==
    [b EXCEPT !.timers = Append(@, [pc |-> "pending", sb |-> 0, at |-> Len(b.procs)])]

\* a tool handler returns (res "ok") or throws (res "error", which executeTool catches)
ToolReturns(b, res) ==
    [b EXCEPT !.pc = "tools", !.result = res, !.callSb = 0, !.callPid = 0, !.html = FALSE]

\* chat, after refreshSandboxTimeout: the user message is pushed, the model is called
EnterLoop(b) ==
    [b EXCEPT !.pushed = TRUE, !.pc = "stream", !.callSb = 0]

BoxStep(b) ==
    /\ box' = b
    /\ UNCHANGED <<srvVars, conns, rwVars, tmVars, agent, cliVars>>

(* chat() is called: ensureAnthropicClient, then refreshSandboxTimeout sends
   sandbox.setTimeout, or Sandbox.create when there is no sandbox *)
BoxChat ==
    /\ box.pc = "idle"
    /\ box.chats < MaxChats
    /\ BoxStep([box EXCEPT !.chats = @ + 1, !.pushed = FALSE,
                           !.refreshed = box.sandbox # 0,
                           !.asked = box.sandbox, !.error = <<>>,
                           !.tool = "", !.result = "",
                           !.pc = IF box.sandbox # 0 THEN "refresh" ELSE "create",
                           !.callSb = box.sandbox])

(* sandbox.setTimeout is back: on success, and on an error that mentions
   neither "404" nor "not found", chat goes on with the sandbox it has; else
   clearSandboxState, and recreateSandbox sends Sandbox.create *)
SetTimeoutReturns ==
    /\ box.pc = "refresh"
    /\ \E errorMessage \in SetTimeoutOutcomes(box) :
        BoxStep(IF errorMessage # <<>> /\ mentionsDestroyed(errorMessage)
                THEN [clearSandboxState(box) EXCEPT !.error = errorMessage,
                                                    !.pc = "create", !.callSb = 0]
                ELSE EnterLoop([box EXCEPT !.error = errorMessage]))

(* Sandbox.create of recreateSandbox is back: a new sandbox, or an error that
   recreateSandbox throws again and chat rejects with *)
CreateReturns ==
    /\ box.pc = "create"
    /\ \/ /\ box.created < MaxSandboxes
          /\ BoxStep(EnterLoop([box EXCEPT !.sandbox = box.created + 1,
                                           !.refreshed = TRUE,
                                           !.created = @ + 1,
                                           !.live = @ \cup {box.created + 1}]))
       \/ BoxStep([box EXCEPT !.pc = "idle", !.result = "rejected"])

\* streamResponse returns: the response's tool calls are processed next
StreamReturns ==
    /\ box.pc = "stream"
    /\ BoxStep([box EXCEPT !.pc = "tools"])

\* the model stream throws: chat rejects
StreamRejects ==
    /\ box.pc = "stream"
    /\ BoxStep([box EXCEPT !.pc = "idle", !.result = "rejected"])

\* the tool results are pushed and the loop goes round
NextResponse ==
    /\ box.pc = "tools"
    /\ BoxStep([box EXCEPT !.pc = "stream"])

\* the loop ends: chat returns
ChatReturns ==
    /\ box.pc = "tools"
    /\ BoxStep([box EXCEPT !.pc = "idle"])

\* handleWriteFile up to await this.sandbox.files.write
WriteFile ==
    /\ box.pc = "tools"
    /\ box.toolCalls < MaxToolCalls
    /\ \E html \in BOOLEAN :
        BoxStep(LET b == [box EXCEPT !.toolCalls = @ + 1, !.tool = "write_file",
                                     !.result = ""]
                IN  IF box.sandbox = 0 THEN ToolReturns(b, "error")
                    ELSE [b EXCEPT !.pc = "wf:write", !.callSb = box.sandbox,
                                   !.html = html])

(* the file is written, or the write throws (the sandbox is gone). For an
   .html file with a preview URL, checkServerProcessAlive: false at once with
   no server handle, else kill -0 is sent *)
FileWritten ==
    /\ box.pc = "wf:write"
    /\ IF box.callSb \notin box.live THEN BoxStep(ToolReturns(box, "error"))
       ELSE IF ~(box.html /\ box.previewUrl # 0) THEN BoxStep(ToolReturns(box, "ok"))
       ELSE IF box.sandbox = 0 \/ box.serverHandle = 0
       THEN /\ Len(box.timers) < MaxTimers
            /\ BoxStep(ToolReturns(ScheduleRestart(box), "ok"))
       ELSE BoxStep([box EXCEPT !.pc = "wf:alive", !.callSb = box.sandbox,
                                !.callPid = box.serverHandle])

\* kill -0 is back: a dead server schedules restartServer in 5 s
AliveForWrite ==
    /\ box.pc = "wf:alive"
    /\ IF checkServerProcessAlive(box) THEN BoxStep(ToolReturns(box, "ok"))
       ELSE /\ Len(box.timers) < MaxTimers
            /\ BoxStep(ToolReturns(ScheduleRestart(box), "ok"))

(* handleGetPreviewUrl up to its first await: checkServerProcessAlive when a
   server is recorded, killPortProcess when none is *)
GetPreviewUrl ==
    /\ box.pc = "tools"
    /\ box.toolCalls < MaxToolCalls
    /\ BoxStep(LET b == [box EXCEPT !.toolCalls = @ + 1, !.tool = "get_preview_url",
                                    !.result = "", !.started = 0,
                                    !.entry = [previewUrl |-> box.previewUrl,
                                               serverHandle |-> box.serverHandle,
                                               procs |-> Len(box.procs)],
                                    !.callSb = box.sandbox]
               IN  IF box.sandbox = 0 THEN ToolReturns(b, "error")
                   ELSE IF box.previewUrl # 0 /\ box.serverHandle # 0
                   THEN [b EXCEPT !.pc = "gp:alive", !.callPid = box.serverHandle]
                   ELSE [b EXCEPT !.pc = "gp:port"])

(* kill -0 is back. Both branches read this.serverHandle!.pid, which throws
   when a restart has set the handle to null meanwhile. A dead process: the
   handle and the URL are dropped and killPortProcess is sent; a live one:
   the quick health check is sent *)
AliveForPreview ==
    /\ box.pc = "gp:alive"
    /\ BoxStep(IF box.serverHandle = 0 THEN ToolReturns(box, "error")
               ELSE IF checkServerProcessAlive(box)
               THEN [box EXCEPT !.pc = "gp:health", !.callSb = box.previewUrl,
                                !.callPid = 0]
               ELSE [box EXCEPT !.serverHandle = 0, !.previewUrl = 0,
                                !.pc = "gp:port", !.callSb = box.sandbox,
                                !.callPid = 0])

(* the quick health check is over: healthy, the tool returns the URL it has;
   else this.serverHandle!.pid is read (and throws on null) and
   serverHandle.kill() is sent *)
QuickHealth ==
    /\ box.pc = "gp:health"
    /\ BoxStep(IF waitForServer(box, box.callSb)
               THEN ToolReturns(Passed(box, box.callSb), "ok")
               ELSE IF box.serverHandle = 0 THEN ToolReturns(box, "error")
               ELSE [box EXCEPT !.pc = "gp:kill", !.callPid = box.serverHandle,
                                !.callSb = box.sandbox])

\* serverHandle.kill() is back: handle and URL are dropped, killPortProcess is sent
OldServerKilled ==
    /\ box.pc = "gp:kill"
    /\ BoxStep([box EXCEPT !.procs = killHandle(@, box.live, box.callPid,
                                                "handleGetPreviewUrl"),
                           !.serverHandle = 0, !.previewUrl = 0,
                           !.pc = "gp:port", !.callSb = box.sandbox, !.callPid = 0])

\* killPortProcess is over: the server is started with commands.run
PortCleared ==
    /\ box.pc = "gp:port"
    /\ BoxStep([box EXCEPT !.procs = killPortProcess(@, box.live, box.callSb,
                                                     "handleGetPreviewUrl", 0),
                           !.pc = "gp:run"])

(* commands.run is back with the handle of the new process, or throws (the
   sandbox is gone); the preview URL is set and the full health check is sent *)
ServerStarted ==
    /\ box.pc = "gp:run"
    /\ IF box.sandbox \notin box.live THEN BoxStep(ToolReturns(box, "error"))
       ELSE /\ Len(box.procs) < MaxServers
            /\ BoxStep([box EXCEPT
                   !.procs = Append(@, [NewProcess(box.sandbox, "handleGetPreviewUrl")
                                            EXCEPT !.after = Len(box.timers)]),
                   !.serverHandle = Len(box.procs) + 1,
                   !.previewUrl = box.sandbox,
                   !.started = @ + 1,
                   !.pc = "gp:ready", !.callSb = box.sandbox])

\* the full health check is over: the browser is opened once, the tool returns the URL
ServerWaited ==
    /\ box.pc = "gp:ready"
    /\ BoxStep(LET isReady == waitForServer(box, box.callSb)
               IN  ToolReturns([Passed(box, box.callSb) EXCEPT
                                    !.browserOpened = @ \/ isReady], "ok"))

(* the 5 s timer of write_file fires: restartServer returns with no sandbox,
   else drops the handle and sends killPortProcess *)
TimerFires(t) ==
    /\ box.timers[t].pc = "pending"
    /\ BoxStep(IF box.sandbox = 0
               THEN [box EXCEPT !.timers[t].pc = "done"]
               ELSE [box EXCEPT !.serverHandle = 0,
                                !.timers[t].pc = "kill",
                                !.timers[t].sb = box.sandbox])

\* restartServer: killPortProcess is over, commands.run is sent
RestartPortCleared(t) ==
    /\ box.timers[t].pc = "kill"
    /\ BoxStep([box EXCEPT !.procs = killPortProcess(@, box.live, box.timers[t].sb,
                                                     "restartServer", t),
                           !.timers[t].pc = "run"])

(* restartServer: commands.run of the sandbox the agent has now is back with
   the new handle, or throws (no sandbox, sandbox gone), which is caught *)
RestartServerStarted(t) ==
    /\ box.timers[t].pc = "run"
    /\ IF box.sandbox = 0 \/ box.sandbox \notin box.live
       THEN BoxStep([box EXCEPT !.timers[t].pc = "done"])
       ELSE /\ Len(box.procs) < MaxServers
            /\ BoxStep([box EXCEPT
                   !.procs = Append(@, [NewProcess(box.sandbox, "restartServer")
                                            EXCEPT !.after = Len(box.timers)]),
                   !.serverHandle = Len(box.procs) + 1,
                   !.timers[t].pc = "done"])

\* a server binds the port and answers, unless another one holds the port
ServerReady(p) ==
    /\ box.procs[p].alive
    /\ ~box.procs[p].ready
    /\ box.procs[p].sb \in box.live
    /\ Listening(box.procs, box.procs[p].sb) = {}
    /\ BoxStep([box EXCEPT !.procs[p].ready = TRUE])

\* a server process exits on its own
ServerExits(p) ==
    /\ box.procs[p].alive
    /\ BoxStep([box EXCEPT !.procs[p].alive = FALSE, !.procs[p].ready = FALSE])

\* the platform destroys a sandbox whose timeout ran out, with its processes
SandboxExpires(s) ==
    /\ s \in box.live
    /\ BoxStep([box EXCEPT !.live = @ \ {s},
                           !.procs = [p \in DOMAIN box.procs |->
                                        IF box.procs[p].sb = s
                                        THEN [box.procs[p] EXCEPT !.alive = FALSE,
                                                                  !.ready = FALSE]
                                        ELSE box.procs[p]]])

BoxNext ==
    \/ BoxChat
    \/ SetTimeoutReturns
    \/ CreateReturns
    \/ StreamReturns
    \/ StreamRejects
    \/ NextResponse
    \/ ChatReturns
    \/ WriteFile
    \/ FileWritten
    \/ AliveForWrite
    \/ GetPreviewUrl
    \/ AliveForPreview
    \/ QuickHealth
    \/ OldServerKilled
    \/ PortCleared
    \/ ServerStarted
    \/ ServerWaited
    \/ \E t \in DOMAIN box.timers :
        \/ TimerFires(t)
        \/ RestartPortCleared(t)
        \/ RestartServerStarted(t)
    \/ \E p \in DOMAIN box.procs :
        \/ ServerReady(p)
        \/ ServerExits(p)
    \/ \E s \in box.live : SandboxExpires(s)

SpecSandbox == SrvInit /\ [][BoxNext]_vars

\* ------------------------------------------------------- waitForServer

(* agent.ts, waitForServer(url, maxRetries, intervalMs, silent): the for loop
   with its two awaits. wait.i is the loop variable, requests the HEAD
   requests sent, answers what each came to ("ok": response.ok; "not ok": a
   response that is not ok; "throws": fetch rejected), returned the value the
   call returned. *)

\* what one fetch(url, { method: "HEAD" }) comes to
FetchAnswers == {"ok", "not ok", "throws"}

\* a loop that tries once more than it was told
retryAgain_Inclusive(i, maxRetries) == i <= maxRetries

\* for (let i = 0; i < maxRetries; i++)
retryAgain(i, maxRetries) == i < maxRetries

\* the call is made, with some maxRetries
WaitInit ==
    /\ SrvIdle
    /\ ConnsOff
    /\ RwOff
    /\ TmOff
    /\ agent = NewAgent
    /\ box = NewBox
    /\ main = NoMain
    /\ \E n \in 0..MaxRetries : wait = [NoWait EXCEPT !.pc = "loop", !.maxRetries = n]

WaitStep(w) ==
    /\ wait' = w
    /\ UNCHANGED <<srvVars, conns, rwVars, tmVars, agent, box, main>>

\* the loop test: another attempt sends its request, else return false
LoopTest ==
    /\ wait.pc = "loop"
    /\ WaitStep(IF retryAgain(wait.i, wait.maxRetries)
                THEN [wait EXCEPT !.pc = "fetch", !.requests = @ + 1]
                ELSE [wait EXCEPT !.pc = "done", !.returned = "false"])

(* the await of fetch is over: response.ok returns true; a response that is
   not ok, and a rejection (caught, the catch block is empty), go on to sleep *)
FetchSettles ==
    /\ wait.pc = "fetch"
    /\ \E answer \in FetchAnswers :
        WaitStep(IF answer = "ok"
                 THEN [wait EXCEPT !.answers = Append(@, answer),
                                   !.pc = "done", !.returned = "true"]
                 ELSE [wait EXCEPT !.answers = Append(@, answer), !.pc = "sleep"])

\* await sleep(intervalMs) is over: i++
SleepOver ==
    /\ wait.pc = "sleep"
    /\ WaitStep([wait EXCEPT !.i = @ + 1, !.pc = "loop"])

WaitNext == LoopTest \/ FetchSettles \/ SleepOver

SpecWait == WaitInit /\ [][WaitNext]_vars

\* ------------------------------------------- runInteractiveMode, cleanup

(* agent.ts, runInteractiveMode and SandboxAgent.cleanup. main.pc is where the
   function is: "start", "askKey" (await promptForApiKey), "init" (await
   agent.initialize), "prompt" (await prompt), "cleanup:server" (await
   serverHandle.kill), "cleanup:sandbox" (await sandbox.kill), "exit" (cleanup
   returned, process.exit is next), "exited", and "crashed" (the finally block
   threw). sandbox and serverHandle say whether the agent's fields are set;
   cause is why the try block was left; cleanup, serverKill and sandboxKill
   record what cleanup did. *)

\* what is typed at the prompt, by the branch of the loop it takes
Commands == {"exit", "quit", "chat", "restart", "debug"}

\* cleanup, its second part: if (this.sandbox) { try { await this.sandbox.kill() } catch {} }
cleanupSandbox(m) ==
    IF m.sandbox
    THEN [m EXCEPT !.pc = "cleanup:sandbox", !.sandboxKill = "sent"]
    ELSE [m EXCEPT !.pc = "exit", !.cleanup = "returned"]

\* a cleanup that lets the error of serverHandle.kill() out
afterServerKill_Rethrows(m, threw) ==
    IF threw
    THEN [m EXCEPT !.serverKill = "threw", !.cleanup = "threw", !.pc = "crashed"]
    ELSE cleanupSandbox([m EXCEPT !.serverKill = "ok"])

\* cleanup, after try { await this.serverHandle.kill() } catch {}
afterServerKill(m, threw) ==
    cleanupSandbox([m EXCEPT !.serverKill = IF threw THEN "threw" ELSE "ok"])

\* the finally block: rl.close(), then cleanup is called and reaches its first await
finally(m, cause) ==
    LET c == [m EXCEPT !.cause = cause, !.cleanup = "running"]
    IN  IF c.serverHandle
        THEN [c EXCEPT !.pc = "cleanup:server", !.serverKill = "sent"]
        ELSE cleanupSandbox(c)

\* the program starts, with or without an API key in the environment
MainInit ==
    /\ SrvIdle
    /\ ConnsOff
    /\ RwOff
    /\ TmOff
    /\ agent = NewAgent
    /\ box = NewBox
    /\ wait = NoWait
    /\ \E k \in BOOLEAN : main = [NoMain EXCEPT !.pc = "start", !.hasApiKey = k]

MainStep(m) ==
    /\ main' = m
    /\ UNCHANGED <<srvVars, conns, rwVars, tmVars, agent, box, wait>>

\* agent.hasApiKey(): ask for a key, or go on to initialize
Begin ==
    /\ main.pc = "start"
    /\ MainStep([main EXCEPT !.pc = IF main.hasApiKey THEN "init" ELSE "askKey"])

\* promptForApiKey returns: "" (exit or quit was typed) returns from the try block
KeyAnswered ==
    /\ main.pc = "askKey"
    /\ \E given \in BOOLEAN :
        MainStep(IF given THEN [main EXCEPT !.hasApiKey = TRUE, !.pc = "init"]
                 ELSE finally(main, "no key"))

\* agent.initialize() is over: the sandbox is there, or the error is caught outside
InitializeSettles ==
    /\ main.pc = "init"
    /\ \E threw \in BOOLEAN :
        MainStep(IF threw THEN finally(main, "initialize threw")
                 ELSE [main EXCEPT !.sandbox = TRUE, !.pc = "prompt"])

(* one line typed at the prompt. exit and quit break out of the loop. chat
   resolves or rejects (caught at the call); its refresh can have replaced or
   lost the sandbox, with the server, and get_preview_url can have started a
   server. restart awaits forceRestartServer, which drops the handle and
   stores a new one unless commands.run fails (caught). debug awaits
   showDebugInfo; what it throws is caught outside the loop. *)
Command ==
    /\ main.pc = "prompt"
    /\ \E cmd \in Commands :
        \/ /\ cmd \in {"exit", "quit"}
           /\ MainStep(finally(main, cmd))
        \/ /\ cmd = "chat"
           /\ main.commands < MaxCommands
           /\ \E sb \in BOOLEAN, sh \in BOOLEAN :
                /\ sh => sb
                /\ MainStep([main EXCEPT !.commands = @ + 1, !.sandbox = sb,
                                         !.serverHandle = sh])
        \/ /\ cmd = "restart"
           /\ main.commands < MaxCommands
           /\ main.sandbox
           /\ \E sh \in BOOLEAN :
                MainStep([main EXCEPT !.commands = @ + 1, !.serverHandle = sh])
        \/ /\ cmd = "debug"
           /\ main.commands < MaxCommands
           /\ \E threw \in BOOLEAN :
                MainStep(IF threw THEN finally([main EXCEPT !.commands = @ + 1],
                                               "command threw")
                         ELSE [main EXCEPT !.commands = @ + 1])

\* cleanup: serverHandle.kill() is over, whichever way
ServerKillSettles ==
    /\ main.pc = "cleanup:server"
    /\ \E threw \in BOOLEAN : MainStep(afterServerKill(main, threw))

\* cleanup: sandbox.kill() is over, whichever way; cleanup returns
SandboxKillSettles ==
    /\ main.pc = "cleanup:sandbox"
    /\ \E threw \in BOOLEAN :
        MainStep([main EXCEPT !.sandboxKill = IF threw THEN "threw" ELSE "ok",
                              !.cleanup = "returned", !.pc = "exit"])

\* spinner.stop, process.exit(0)
ProcessExit ==
    /\ main.pc = "exit"
    /\ MainStep([main EXCEPT !.pc = "exited"])

MainNext ==
    \/ Begin
    \/ KeyAnswered
    \/ InitializeSettles
    \/ Command
    \/ ServerKillSettles
    \/ SandboxKillSettles
    \/ ProcessExit

SpecMain == MainInit /\ [][MainNext]_vars

\* ------------------------------------------------------------ the claims

\* the handlers whose response body the proxy itself produces
OwnHandlers == {"handleHealth", "handleMetrics", "handleJsonVersion", "handleJsonList"}

\* the two names of the forwarder in the switch: upgrade and plain passthrough
Forwarders == {"proxyWebSocket", "proxy"}

\* the internal target address in its recognized spellings
InternalAddresses ==
    { Localhost \o <<":">> \o Itoa(targetPort), Loopback \o <<":">> \o Itoa(targetPort) }

MentionsInternal(s) == \E a \in InternalAddresses : Contains(s, a)

\* every string value of an object
ObjectStrings(o) == { o[key].s : key \in { k \in DOMAIN o : o[k].t = "string" } }

\* every string a response body holds
BodyStrings(b) ==
    IF b.kind = "text" THEN { b.text }
    ELSE IF b.kind # "json" THEN {}
    ELSE ObjectStrings(b.doc.obj)
         \cup UNION { ObjectStrings(b.doc.arr[i].obj) : i \in 1..Len(b.doc.arr) }

(* C1: no response body the proxy itself produces (health, metrics, version,
   list) contains the internal target address in any recognized spelling. *)
C1_NoInternalAddressInResponse ==
    handler \in OwnHandlers =>
        \A s \in BodyStrings(response.body) : ~MentionsInternal(s)

(* C2: the Host header of every request the forwarder sends upstream is the
   Upstream Target address, whatever Host the inbound request carried. *)
C2_OutboundHostIsTarget ==
    handler \in Forwarders => outbound.host = targetHostPort

(* C3: once all N connections, handled in parallel from count 0, are done,
   requestCount is N. *)
C3_NoLostIncrement ==
    (\A g \in Clients : conns[g].pc = "done") => requestCount = NumClients

(* C4: for a URL P + s with P one of the three internal prefixes, the rewriter
   returns exactly "wss://" + externalHostPort + s. *)
C4_PrefixReplacedSuffixKept ==
    rwPc \in {"once", "twice"} =>
        \A P \in InternalPrefixes :
            HasPrefix(originalURL, P) =>
                newURL = SchemeWSS \o publicHostPort \o SliceFrom(originalURL, Len(P))

(* C5: a URL that does not begin with one of the three internal prefixes is
   returned unchanged. *)
C5_UnrecognizedUnchanged ==
    (rwPc \in {"once", "twice"}
     /\ \A P \in InternalPrefixes : ~HasPrefix(originalURL, P))
        => newURL = originalURL

(* C6: for a URL of the three recognized prefix forms, rewriting the
   rewritten URL again changes nothing. *)
C6_Idempotent ==
    (rwPc = "twice" /\ \E P \in InternalPrefixes : HasPrefix(originalURL, P))
        => newURL2 = newURL

\* the paths the switch names
HealthPaths == { <<"/","h","e","a","l","t","h">> }

MetricsPaths == { <<"/","m","e","t","r","i","c","s">> }

VersionPaths == { <<"/","j","s","o","n","/","v","e","r","s","i","o","n">>, <<"/","j","s","o","n","/","v","e","r","s","i","o","n","/">> }

ListPaths == { <<"/","j","s","o","n">>, <<"/","j","s","o","n","/">>, <<"/","j","s","o","n","/","l","i","s","t">> }

SpecialPaths == HealthPaths \cup MetricsPaths \cup VersionPaths \cup ListPaths

(* C7: a GET of /health, /metrics, a version path or a list path goes to the
   handler of that path, every other request to the forwarder; a request with
   another method to one of these paths goes to the forwarder. *)
C7_DispatchOrder ==
    handler # "none" =>
        /\ handler \in OwnHandlers \cup Forwarders
        /\ (request.method = "GET" /\ request.path \in HealthPaths) => handler = "handleHealth"
        /\ (request.method = "GET" /\ request.path \in MetricsPaths) => handler = "handleMetrics"
        /\ (request.method = "GET" /\ request.path \in VersionPaths) => handler = "handleJsonVersion"
        /\ (request.method = "GET" /\ request.path \in ListPaths) => handler = "handleJsonList"
        /\ (request.method # "GET" \/ request.path \notin SpecialPaths) => handler \in Forwarders

\* C7 witness: a POST to /json was served by the forwarder
C7_Witness ==
    /\ handler = "proxy"
    /\ request.method = "POST"
    /\ request.path \in ListPaths

\* header pairs <<Upgrade, Connection>> that are a WebSocket upgrade
UpgradePairs ==
    { << <<"w","e","b","s","o","c","k","e","t">>, <<"U","p","g","r","a","d","e">> >>,
      << <<"W","e","b","S","o","c","k","e","t">>, <<"k","e","e","p","-","a","l","i","v","e",","," ","U","P","G","R","A","D","E">> >> }

CarriesUpgrade(r) == <<r.upgrade, r.connection>> \in UpgradePairs

(* C8 as stated: every request with WebSocket upgrade headers, of any method
   and to any path, is handled by the byte-level proxy. *)
C8_UpgradeAlwaysForwarded ==
    (handler # "none" /\ CarriesUpgrade(request)) => handler = "proxyWebSocket"

(* C8 amended: a request with WebSocket upgrade headers is handled by the
   byte-level proxy unless it is a GET of one of the seven paths of the
   operational and discovery handlers, which the switch matches first. *)
C8_UpgradeForwardedUnlessSpecialGet ==
    (/\ handler # "none"
     /\ CarriesUpgrade(request)
     /\ ~(request.method = "GET" /\ request.path \in SpecialPaths))
        => handler = "proxyWebSocket"

\* C8 witness: an upgrade in mixed letter case, POSTed to /json, was forwarded
C8_Witness ==
    /\ handler = "proxyWebSocket"
    /\ request.method = "POST"
    /\ request.path \in ListPaths
    /\ request.upgrade = <<"W","e","b","S","o","c","k","e","t">>

(* C9: the version response has the keys of the upstream document and the
   same value for every key but webSocketDebuggerUrl; with that key absent or
   no string, the document is returned with no field changed. *)
C9_VersionFieldsPreserved ==
    (handler = "handleJsonVersion" /\ fetched.outcome = "ok" /\ fetched.doc.k = "object") =>
        /\ response.body.kind = "json"
        /\ response.body.doc.k = "object"
        /\ DOMAIN response.body.doc.obj = DOMAIN fetched.doc.obj
        /\ \A key \in DOMAIN fetched.doc.obj \ {"webSocketDebuggerUrl"} :
               response.body.doc.obj[key] = fetched.doc.obj[key]
        /\ ~HasString(fetched.doc.obj, "webSocketDebuggerUrl")
               => response.body.doc = fetched.doc

\* an entry of the response beside the entry of the upstream list it came from
EntryPreserved(out, in) ==
    /\ out.k = in.k
    /\ DOMAIN out.obj = DOMAIN in.obj
    /\ \A key \in DOMAIN in.obj \ {"webSocketDebuggerUrl", "devtoolsFrontendUrl"} :
           out.obj[key] = in.obj[key]
    /\ DOMAIN in.obj \cap {"webSocketDebuggerUrl", "devtoolsFrontendUrl"} = {}
           => out = in

(* C10: the list response has as many entries as the upstream list, in the
   same order; in each entry every field but webSocketDebuggerUrl and
   devtoolsFrontendUrl is unchanged, and an entry with neither is unchanged. *)
C10_ListFieldsPreserved ==
    (/\ handler = "handleJsonList"
     /\ fetched.outcome = "ok"
     /\ fetched.doc.k = "array"
     /\ \A i \in 1..Len(fetched.doc.arr) : fetched.doc.arr[i].k # "scalar") =>
        /\ response.body.kind = "json"
        /\ response.body.doc.k = "array"
        /\ Len(response.body.doc.arr) = Len(fetched.doc.arr)
        /\ \A i \in 1..Len(fetched.doc.arr) :
               EntryPreserved(response.body.doc.arr[i], fetched.doc.arr[i])

\* "ws://127.0.0.1:<targetPort>", the prefix Chrome reports
LoopbackPrefix == SchemeWS \o Loopback \o <<":">> \o Itoa(targetPort)

(* C11: for a GET /json/version whose upstream document has
   webSocketDebuggerUrl "ws://127.0.0.1:<targetPort>" + s and whose request
   carries Host H, the response is 200 with webSocketDebuggerUrl exactly
   "wss://" + H + s, and the Browser field as the upstream sent it. *)
C11_VersionUrlTakenFromHost ==
    (/\ handler = "handleJsonVersion"
     /\ fetched.outcome = "ok"
     /\ fetched.doc.k = "object"
     /\ HasString(fetched.doc.obj, "webSocketDebuggerUrl")
     /\ HasPrefix(fetched.doc.obj["webSocketDebuggerUrl"].s, LoopbackPrefix)) =>
        /\ response.status = 200
        /\ response.body.kind = "json"
        /\ response.body.doc.k = "object"
        /\ "webSocketDebuggerUrl" \in DOMAIN response.body.doc.obj
        /\ response.body.doc.obj["webSocketDebuggerUrl"] =
               JStr(SchemeWSS \o request.host
                    \o SliceFrom(fetched.doc.obj["webSocketDebuggerUrl"].s, Len(LoopbackPrefix)))
        /\ "Browser" \in DOMAIN fetched.doc.obj =>
               /\ "Browser" \in DOMAIN response.body.doc.obj
               /\ response.body.doc.obj["Browser"] = fetched.doc.obj["Browser"]

\* the two discovery handlers
DiscoveryHandlers == {"handleJsonVersion", "handleJsonList"}

\* outcomes of the fetch that are failures of the transport
TransportFailures == {"refused", "timeout", "readfail"}

(* C12: whenever the fetch of the discovery document fails at transport level
   (connection refused, timeout, connection lost), the version and list
   handlers answer 502, write no document, and errorCount grows by exactly
   one for that request. *)
C12_TransportFailureIs502 ==
    [][(/\ handler = "none"
        /\ handler' \in DiscoveryHandlers
        /\ fetched'.outcome \in TransportFailures) =>
           /\ response'.status = 502
           /\ response'.body.kind # "json"
           /\ errorCount' = errorCount + 1]_vars

\* whether an upstream body is JSON of the shape the handler h expects
ExpectedShape(h, doc) ==
    IF h = "handleJsonVersion" THEN doc.k = "object"
    ELSE doc.k = "array" /\ \A i \in 1..Len(doc.arr) : doc.arr[i].k = "object"

(* C13: whenever the upstream body is not JSON of the expected shape (an
   object for the version form, an array of objects for the list form), the
   discovery handler answers 500, errorCount grows by exactly one, and the
   response holds no part of the upstream document. *)
C13_MalformedUpstreamIs500 ==
    [][(/\ handler = "none"
        /\ handler' \in DiscoveryHandlers
        /\ fetched'.outcome = "ok"
        /\ ~ExpectedShape(handler', fetched'.doc)) =>
           /\ response'.status = 500
           /\ errorCount' = errorCount + 1
           /\ response'.body.kind = "text"
           /\ fetched'.doc.k = "garbage" => ~Contains(response'.body.text, fetched'.doc.raw)]_vars

\* the "status" member of a JSON response body
BodyStatus(b) ==
    IF b.kind = "json" /\ b.doc.k = "object" /\ "status" \in DOMAIN b.doc.obj
    THEN b.doc.obj["status"].s ELSE <<>>

(* C14: GET /health makes its version fetch at the time of the request and
   answers 200 "healthy" exactly when that fetch succeeds and 503 "unhealthy"
   exactly when it fails; with the upstream down at the time of the request
   the answer is 503, whatever earlier requests saw. *)
C14_HealthReflectsUpstream ==
    handler = "handleHealth" =>
        /\ gets = 1
        /\ fetched.outcome \in {"ok", "readfail"} <=>
               (response.status = 200 /\ BodyStatus(response.body) = <<"h","e","a","l","t","h","y">>)
        /\ fetched.outcome \in {"refused", "timeout"} <=>
               (response.status = 503 /\ BodyStatus(response.body) = <<"u","n","h","e","a","l","t","h","y">>)
        /\ response.status \in {200, 503}
        /\ ~upstreamUp => response.status = 503

(* C14 witness: the second request is a /health served after the upstream
   went down, and it is answered 503 *)
C14_Witness ==
    /\ handler = "handleHealth"
    /\ requestCount = 2
    /\ ~upstreamUp
    /\ fetched.outcome = "refused"
    /\ response.status = 503

\* a member of a JSON object body, JNull when the body has none
BodyMember(b, key) ==
    IF b.kind = "json" /\ b.doc.k = "object" /\ key \in DOMAIN b.doc.obj
    THEN b.doc.obj[key] ELSE JNull

(* C15: GET /metrics answers 200 with the current values of requestCount and
   errorCount and makes no request to the upstream, neither a fetch nor a
   forwarded request, whether the upstream is up or down. *)
C15_MetricsNeverTouchesUpstream ==
    handler = "handleMetrics" =>
        /\ response.status = 200
        /\ BodyMember(response.body, "requests_total") = JNum(0, requestCount)
        /\ BodyMember(response.body, "errors_total") = JNum(0, errorCount)
        /\ gets = 0
        /\ fetched = NoFetch
        /\ outbound = NoOutbound

(* C15 witness: /metrics served while the upstream is down, after a request
   that was counted as an error *)
C15_Witness ==
    /\ handler = "handleMetrics"
    /\ ~upstreamUp
    /\ errorCount = 1
    /\ requestCount = 2
    /\ response.status = 200

(* C16: every call of the forwarder, upgrade or plain, adds one to
   requestCount, and every forwarded request that fails at transport level
   (the upstream does not accept the connection) adds one to errorCount. *)
C16_ForwarderCountsErrors ==
    [][(handler = "none" /\ handler' \in Forwarders) =>
           /\ requestCount' = requestCount + 1
           /\ ~upstreamUp => errorCount' = errorCount + 1]_vars

\* the statuses the proxy's own handlers answer with
OwnStatuses == {200, 500, 502, 503}

(* C19: every request to /health, /metrics and the discovery endpoints ends
   with one complete response received by the caller, of status 200, 500, 502
   or 503, whatever the upstream does (refuses, never answers, answers
   garbage). *)
C19_CallerAlwaysAnswered ==
    call.pc = "finished" =>
        /\ call.delivered
        /\ call.resp.status \in OwnStatuses

\* the handlers that fetch from the upstream
FetchingHandlers == {"handleHealth", "handleJsonVersion", "handleJsonList"}

(* whether the fetch of handler h failed: the Get for every handler, and the
   read of the body for the discovery handlers (handleHealth reads no body) *)
FetchFailure(h, f) ==
    \/ f.outcome \in {"refused", "timeout"}
    \/ h \in DiscoveryHandlers /\ f.outcome = "readfail"

(* C18: a request to /health or to a discovery endpoint makes at most one Get
   to the upstream, and when that fetch fails the handler answers the error
   status (503 for /health, 502 or 500 for discovery) on that same attempt,
   never a success. *)
C18_NothingRetried ==
    handler \in FetchingHandlers =>
        /\ gets <= 1
        /\ FetchFailure(handler, fetched) =>
               /\ response.status \in {500, 502, 503}
               /\ handler = "handleHealth" => response.status = 503
               /\ handler \in DiscoveryHandlers => response.status \in {500, 502}
               /\ BodyStatus(response.body) # <<"h","e","a","l","t","h","y">>
               /\ handler \in DiscoveryHandlers => response.body.kind = "text"

\* C18 witness: the list handler's one Get timed out and it answered 502
C18_Witness ==
    /\ handler = "handleJsonList"
    /\ fetched.outcome = "timeout"
    /\ gets = 1
    /\ response.status = 502

\* one pass of the loop of chat is over: a reply was handled and chat goes on or has resolved
PassOver ==
    /\ agent.reply # NoReply
    /\ agent.pc \in {"stream", "idle"}
    /\ agent.outcome # "rejected"

\* the last message of the history
LastMessage == agent.messages[Len(agent.messages)]

\* the tool results of the pass are the last message, one per tool call, in order
ResultsAppended ==
    /\ LastMessage.role = "user"
    /\ LastMessage.kind = "tool_result"
    /\ [k \in 1..Len(LastMessage.content) |-> LastMessage.content[k].id]
           = ToolIds(agent.reply.content)

(* C20 as stated: after each model response, if it contains a tool call then
   every tool call is executed, the results are appended as one user message
   and the model is called again; if it contains none the loop ends without
   a further model call. *)
C20_LoopFollowsToolCalls ==
    PassOver =>
        IF ToolIds(agent.reply.content) # <<>>
        THEN /\ agent.executed = ToolIds(agent.reply.content)
             /\ ResultsAppended
             /\ agent.pc = "stream"
        ELSE /\ agent.pc = "idle"
             /\ agent.outcome = "resolved"

(* C20 amended: a response cut by max_tokens has none of its tool calls
   executed, the continuation prompt is appended and the model is called
   again; of any other response every tool call is executed in order and, if
   there is one, the results are appended as one user message, and the model
   is called again unless the stop reason is end_turn; with no tool call the
   loop ends, the assistant message last. *)
C20_LoopFollowsStopReason ==
    PassOver =>
        IF agent.reply.stop = "max_tokens"
        THEN /\ agent.executed = <<>>
             /\ LastMessage = ContinueMessage
             /\ agent.pc = "stream"
        ELSE IF ToolIds(agent.reply.content) # <<>>
        THEN /\ agent.executed = ToolIds(agent.reply.content)
             /\ ResultsAppended
             /\ agent.pc = "stream" <=> agent.reply.stop # "end_turn"
             /\ agent.pc = "idle" => agent.outcome = "resolved"
        ELSE /\ agent.pc = "idle"
             /\ agent.outcome = "resolved"
             /\ LastMessage = AssistantMessage(agent.reply.content)

(* C20 witness: a reply with two tool calls and stop reason tool_use was
   handled, both tools ran and the model is about to be called again *)
C20_Witness ==
    /\ PassOver
    /\ agent.reply.stop = "tool_use"
    /\ agent.executed = <<1, 2>>
    /\ ResultsAppended
    /\ agent.pc = "stream"

\* CONFIG.maxContinueAttempts
maxContinueAttempts == 3

\* index of the user's input that opened the chat() call the history ends in
RECURSIVE LastUserInput(_, _)
LastUserInput(msgs, k) ==
    IF k = 0 THEN 0
    ELSE IF msgs[k].kind = "text" THEN k
    ELSE LastUserInput(msgs, k - 1)

\* continuation prompts pushed since the user's last input
Continuations(msgs) ==
    Cardinality({k \in (LastUserInput(msgs, Len(msgs)) + 1)..Len(msgs) :
                    msgs[k] = ContinueMessage})

(* C24: within one chat() call the loop does not go on to another model call
   once maxContinueAttempts responses were truncated (stop_reason max_tokens):
   after the third one the loop has stopped. *)
C24_ContinuationBounded ==
    agent.pc = "stream" => Continuations(agent.messages) < maxContinueAttempts

\* tool_use_id of each tool_result of a user message, in order
ResultIds(results) == [j \in 1..Len(results) |-> results[j].id]

\* message k of the history is followed by the tool results of its tool calls
ToolUseAnswered(msgs, k) ==
    /\ k < Len(msgs)
    /\ msgs[k + 1].role = "user"
    /\ msgs[k + 1].kind = "tool_result"
    /\ ResultIds(msgs[k + 1].content) = ToolIds(msgs[k].content)

(* C25: in this.messages every assistant message that contains tool_use
   blocks is immediately followed by a user message with exactly one
   tool_result per tool_use id, in the same order, whatever the stop_reason
   (the last message is exempt while processToolCalls is still executing its
   tools). *)
C25_ToolUseAlwaysAnswered ==
    \A k \in 1..Len(agent.messages) :
        ( /\ agent.messages[k].role = "assistant"
          /\ ToolIds(agent.messages[k].content) # <<>>
          /\ (k < Len(agent.messages) \/ agent.pc # "tools") )
        => ToolUseAnswered(agent.messages, k)

(* C27: at every moment, under every interleaving of the connections,
   errorCount is at most requestCount. *)
C27_ErrorsAtMostRequests == errorCount <= requestCount

\* s with its first "ws=<internal host:port>", if it has one, naming the public host
FrontendUrlFor(s, public) ==
    LET internal == QueryWS \o targetHostPort
        at == Index(s, internal)
    IN  IF at < 0 THEN s
        ELSE SliceTo(s, at) \o QueryWS \o public \o SliceFrom(s, at + Len(internal))

(* C28: in a list response, every entry that has a string devtoolsFrontendUrl
   carries it with the first "ws=<internal host:port>" replaced by
   "ws=<request Host>" and the rest of the string as it was, unchanged when
   the substring does not occur; this for every entry of the list. *)
C28_FrontendUrlRewritten ==
    (/\ handler = "handleJsonList"
     /\ fetched.outcome = "ok"
     /\ fetched.doc.k = "array"
     /\ \A i \in 1..Len(fetched.doc.arr) : fetched.doc.arr[i].k # "scalar") =>
        /\ response.status = 200
        /\ response.body.doc.k = "array"
        /\ Len(response.body.doc.arr) = Len(fetched.doc.arr)
        /\ \A i \in 1..Len(fetched.doc.arr) :
               HasString(fetched.doc.arr[i].obj, "devtoolsFrontendUrl") =>
                   /\ HasString(response.body.doc.arr[i].obj, "devtoolsFrontendUrl")
                   /\ response.body.doc.arr[i].obj["devtoolsFrontendUrl"].s
                        = FrontendUrlFor(fetched.doc.arr[i].obj["devtoolsFrontendUrl"].s,
                                         request.host)

(* a list of two entries was answered: the second has the substring twice,
   the first once, and both were rewritten *)
C28_Witness ==
    /\ handler = "handleJsonList"
    /\ fetched.outcome = "ok"
    /\ fetched.doc.k = "array"
    /\ Len(fetched.doc.arr) = 2
    /\ \A i \in 1..2 : HasString(fetched.doc.arr[i].obj, "devtoolsFrontendUrl")
    /\ fetched.doc.arr[1].obj["id"] = JStr(<<"A">>)
    /\ fetched.doc.arr[2].obj["id"] = JStr(<<"B">>)
    /\ response.status = 200
    /\ \A i \in 1..2 : response.body.doc.arr[i].obj["devtoolsFrontendUrl"]
                         # fetched.doc.arr[i].obj["devtoolsFrontendUrl"]
    /\ Contains(response.body.doc.arr[2].obj["devtoolsFrontendUrl"].s,
                QueryWS \o targetHostPort)

(* C29: when the forwarder handles a request that isWebSocketUpgrade accepts,
   in whatever letter case and with whatever else in Connection, the request
   sent to the upstream carries Connection: Upgrade and Upgrade: websocket. *)
C29_HandshakeHeadersSent ==
    (handler \in Forwarders /\ isWebSocketUpgrade(request)) =>
        /\ outbound.connection = HdrUpgrade
        /\ outbound.upgrade = TokWebsocket

(* an upgrade spelled "WebSocket" with "keep-alive, UPGRADE" was forwarded to
   a running upstream with the two headers in their canonical spelling *)
C29_Witness ==
    /\ handler = "proxyWebSocket"
    /\ upstreamUp
    /\ request.upgrade # TokWebsocket
    /\ request.connection # HdrUpgrade
    /\ HeaderContainsToken(request.connection, HdrUpgrade)
    /\ outbound.connection = HdrUpgrade
    /\ outbound.upgrade = TokWebsocket
    /\ response.status = 101

(* C30: every successful discovery response carries Content-Type
   application/json and a Content-Length equal to the number of bytes of the
   re-encoded body that is written. *)
C30_ExactContentLength ==
    (handler \in DiscoveryHandlers /\ response.status = 200) =>
        /\ response.contentType = "application/json"
        /\ response.body.kind = "json"
        /\ response.contentLength = Len(response.body.text)

(* a version document whose webSocketDebuggerUrl was rewritten was answered:
   the body written differs in length from the upstream's, and the announced
   length is that of the body written *)
C30_Witness ==
    /\ handler = "handleJsonVersion"
    /\ response.status = 200
    /\ HasString(fetched.doc.obj, "webSocketDebuggerUrl")
    /\ response.body.doc # fetched.doc
    /\ Len(response.body.text) # Len(Encode(fetched.doc))
    /\ Len(response.body.text) > Len(KeyChars("webSocketDebuggerUrl"))
    /\ response.contentLength = Len(response.body.text)

\* the fields and the processes a step of the main flow leaves as they were
ServerUntouched ==
    /\ box'.previewUrl = box.previewUrl
    /\ box'.serverHandle = box.serverHandle
    /\ Len(box'.procs) = Len(box.procs)
    /\ \A p \in DOMAIN box.procs : box'.procs[p].alive = box.procs[p].alive

(* C21: get_preview_url with a server recorded (previewUrl and serverHandle
   set), whose process is alive and which answers the quick health check,
   returns the address it has: none of its steps starts a server process,
   kills a process, or assigns previewUrl or serverHandle. *)
C21_RunningServerKept ==
    [][ /\ ( /\ box.pc = "tools"
             /\ box'.pc = "gp:alive" ) => ServerUntouched
        /\ ( /\ box.pc = "gp:alive"
             /\ box'.pc # box.pc
             /\ box.serverHandle # 0
             /\ box.callSb \in box.live
             /\ box.procs[box.callPid].alive )
           => (box'.pc = "gp:health" /\ ServerUntouched)
        /\ ( /\ box.pc = "gp:health"
             /\ box'.pc # box.pc
             /\ box.callSb \in box.live
             /\ Listening(box.procs, box.callSb) # {} )
           => ( /\ box'.pc = "tools"
                /\ box'.result = "ok"
                /\ box'.started = 0
                /\ ServerUntouched ) ]_vars

(* get_preview_url has returned the address of the server it found recorded,
   alive and answering *)
C21_Witness ==
    /\ box.pc = "tools"
    /\ box.tool = "get_preview_url"
    /\ box.result = "ok"
    /\ box.started = 0
    /\ box.entry.previewUrl # 0
    /\ box.entry.serverHandle # 0
    /\ box.previewUrl = box.entry.previewUrl
    /\ box.serverHandle = box.entry.serverHandle
    /\ Len(box.procs) = box.entry.procs
    /\ box.procs[box.serverHandle].alive
    /\ box.procs[box.serverHandle].passed


\* the words the refresh looks for in a caught error
SaysDestroyed(errorMessage) ==
    \/ Contains(errorMessage, <<"4","0","4">>)
    \/ Contains(errorMessage, <<"n","o","t"," ","f","o","u","n","d">>)

\* the positions of chat from the first model call on
InLoop == box.pc \notin {"idle", "refresh", "create"}

(* C22: every chat refreshes the sandbox timeout (or creates a sandbox with a
   fresh timeout when it holds none) before the user message is pushed and
   before the model is called; a refresh that fails with an error mentioning
   "404" or "not found" clears sandbox, serverHandle, previewUrl and
   browserOpened and goes on to create a sandbox; and from the first model
   call on the agent holds a sandbox other than one its refresh reported
   destroyed. *)
C22_RefreshedBeforeModel ==
    /\ [](/\ box.pc \in {"refresh", "create"} => ~box.pushed
          /\ box.pushed => box.refreshed
          /\ InLoop => /\ box.pushed
                       /\ box.sandbox # 0
                       /\ SaysDestroyed(box.error) => box.sandbox # box.asked)
    /\ [][(box.pc = "refresh" /\ box'.pc # "refresh" /\ SaysDestroyed(box'.error))
            => /\ box'.pc = "create"
               /\ box'.sandbox = 0
               /\ box'.serverHandle = 0
               /\ box'.previewUrl = 0
               /\ ~box'.browserOpened]_vars

(* a chat whose refresh was answered "not found" for a sandbox that held a
   server, now calling the model with a new sandbox *)
C22_Witness ==
    /\ box.pc = "stream"
    /\ box.error = MsgNotFound
    /\ box.asked = 1
    /\ box.sandbox = 2
    /\ box.previewUrl = 0
    /\ \E p \in 1..Len(box.procs) : box.procs[p].sb = 1

\* the positions of handleGetPreviewUrl between its call and its return
GpPcs == {"gp:alive", "gp:health", "gp:kill", "gp:port", "gp:run", "gp:ready"}

(* a call of get_preview_url that found a server recorded and then its
   process dead (kill -0 fails) or the quick health check unanswered *)
NeedsHealing(b) ==
    /\ b.tool = "get_preview_url"
    /\ b.pc \in GpPcs
    /\ b.entry.previewUrl # 0
    /\ b.entry.serverHandle # 0
    /\ b.pc = "gp:alive" => ~checkServerProcessAlive(b)
    /\ b.pc = "gp:health" => ~waitForServer(b, b.callSb)

(* C23: when get_preview_url finds the recorded server's process dead or
   failing the quick health check, then by the time the tool returns the old
   handle is discarded, the tool has started exactly one new server process
   and previewUrl is set again. *)
C23_SelfHealing ==
    [][(NeedsHealing(box) /\ box'.pc = "tools")
        => /\ box'.started = 1
           /\ box'.previewUrl # 0
           /\ box'.serverHandle # box.entry.serverHandle]_vars

(* C26: a restart scheduled by write_file never kills a server that
   get_preview_url started after the restart was scheduled, and a server that
   passed its health check is not killed by restartServer. *)
C26_RestartSparesNewServer ==
    \A p \in DOMAIN box.procs :
        box.procs[p].killedBy = "restartServer"
            => /\ ~(/\ box.procs[p].by = "handleGetPreviewUrl"
                    /\ box.procs[p].killer <= box.procs[p].after)
               /\ ~box.procs[p].passed

\* the tool_use blocks of a content, in order
ToolBlocks(content) ==
    LET ps == ToolPositions(content, 1) IN [k \in 1..Len(ps) |-> content[ps[k]]]

\* results answers the first Len(results) tool_use blocks of content, one each, in order
AnswersInOrder(results, content) ==
    /\ Len(results) <= Len(ToolBlocks(content))
    /\ \A j \in 1..Len(results) :
        /\ results[j].type = "tool_result"
        /\ results[j].id = ToolBlocks(content)[j].id
        /\ results[j].result \in {"ok", "error", "unknown tool"}
        /\ ToolBlocks(content)[j].name \notin RegisteredTools
              <=> results[j].result = "unknown tool"

(* C31: processToolCalls gives exactly one tool_result per tool_use block of
   the assistant content, with the block's id and in the blocks' order; an
   unknown tool name and a throwing handler give an error string as the
   result; the call never throws (chat is not rejected from inside it) and
   goes on to the remaining blocks after an error. *)
C31_OneResultPerToolUse ==
    /\ [](/\ agent.pc = "tools"
              => /\ AnswersInOrder(agent.toolResults, agent.reply.content)
                 /\ Len(agent.toolResults) < Len(ToolBlocks(agent.reply.content))
          /\ (agent.pc # "tools" /\ agent.reply.stop \notin {"", "max_tokens"})
              => /\ AnswersInOrder(agent.toolResults, agent.reply.content)
                 /\ Len(agent.toolResults) = Len(ToolBlocks(agent.reply.content)))
    /\ [][agent.pc = "tools"
            => /\ agent'.outcome # "rejected"
               /\ Len(agent'.toolResults) = Len(agent.toolResults) + 1
               /\ agent'.pc = "tools"
                    <=> Len(agent'.toolResults) < Len(ToolBlocks(agent.reply.content))]_vars

(* a call that went through a handler that threw and then an unknown tool,
   and returned a result for each *)
C31_Witness ==
    /\ agent.pc # "tools"
    /\ agent.reply.content = <<ToolUse(1, "write_file"), ToolUse(2, "delete_file")>>
    /\ agent.toolResults = <<ToolResult(1, "error"), ToolResult(2, "unknown tool")>>

(* C32: the message history strictly alternates user and assistant roles,
   starting with user, after any sequence of chat calls. *)
C32_RolesAlternate ==
    \A k \in 1..Len(agent.messages) :
        agent.messages[k].role = IF k % 2 = 1 THEN "user" ELSE "assistant"

(* C33: waitForServer sends at most maxRetries requests; it returns true at
   the first attempt answered ok, having sent no request after it; it returns
   false after exactly maxRetries attempts none of which was ok; a fetch that
   throws is one failed attempt and the call still returns a value. *)
C33_WaitBounded ==
    /\ wait.requests <= wait.maxRetries
    /\ wait.requests = Len(wait.answers) + (IF wait.pc = "fetch" THEN 1 ELSE 0)
    /\ \A k \in 1..Len(wait.answers) :
          wait.answers[k] = "ok" => k = Len(wait.answers) /\ wait.returned = "true"
    /\ wait.pc = "done" <=> wait.returned \in {"true", "false"}
    /\ wait.returned = "true"
          => wait.answers # <<>> /\ wait.answers[Len(wait.answers)] = "ok"
    /\ wait.returned = "false"
          => /\ wait.requests = wait.maxRetries
             /\ \A k \in 1..Len(wait.answers) : wait.answers[k] # "ok"

\* a call allowed four attempts that returned true at its third, after a throw
C33_Witness ==
    /\ wait.maxRetries = 4
    /\ wait.returned = "true"
    /\ wait.answers = <<"throws", "not ok", "ok">>
    /\ wait.requests = 3

(* C34: on every path by which runInteractiveMode leaves its try block (exit,
   quit, no API key given, initialize throwing, a command throwing) cleanup
   runs and returns before the process exits; cleanup attempts sandbox.kill
   whenever the agent holds a sandbox, also after serverHandle.kill threw,
   and never throws. *)
C34_CleanupBeforeExit ==
    /\ main.pc \in {"exit", "exited"} => main.cleanup = "returned"
    /\ main.cause # "" <=> main.cleanup # "none"
    /\ main.cleanup # "threw" /\ main.pc # "crashed"
    /\ (main.cleanup = "returned" /\ main.sandbox) => main.sandboxKill \in {"ok", "threw"}
    /\ (main.cleanup = "returned" /\ main.serverHandle)
          => main.serverKill \in {"ok", "threw"}

\* the process exited on "exit" after a cleanup whose server kill threw
C34_Witness ==
    /\ main.pc = "exited"
    /\ main.cause = "exit"
    /\ main.serverKill = "threw"
    /\ main.sandboxKill = "ok"

(* C35: errorCount is modified only while a discovery handler serves a
   request, and by at most one increment per request; /health (also when it
   answers 503), /metrics and every forwarded request leave it unchanged. *)
C35_OnlyDiscoveryCountsErrors ==
    [][/\ errorCount' \in {errorCount, errorCount + 1}
       /\ errorCount' # errorCount => handler' \in DiscoveryHandlers
       /\ handler' \notin DiscoveryHandlers => errorCount' = errorCount]_vars

(* after a discovery request that counted an error, /health answered 503 and
   the count stayed at one *)
C35_Witness ==
    /\ handler = "handleHealth"
    /\ response.status = 503
    /\ requestCount = 2
    /\ errorCount = 1

\* a version document and a target list to probe an instance with
ProbeVersion ==
    FetchOk(DocObject([key \in {"webSocketDebuggerUrl"} |->
                          JStr(SchemeWS \o targetHostPort \o PathPageA)]))

ProbeList ==
    FetchOk(DocArray(<<EntryObject([key \in {"id", "webSocketDebuggerUrl"} |->
                          IF key = "id" THEN JStr(<<"A">>)
                          ELSE JStr(SchemeWS \o targetHostPort \o PathPageA)])>>))

(* what this proxy instance, as it is now, answers to a GET of discovery path
   p with Host h when its fetch comes to f *)
DiscoveryAnswer(p, h, f) ==
    LET r == [method |-> "GET", path |-> p, host |-> h, upgrade |-> <<>>,
              connection |-> <<>>]
    IN  IF p \in VersionPaths THEN handleJsonVersion(r, f).resp
        ELSE handleJsonList(r, f).resp

(* C36: the response of a discovery request is a function of the upstream
   document, the request path and the Host header. The response written is
   the instance's answer to the bare GET of that path and Host, whatever the
   request's other headers; and every instance, whatever requests it has
   served and whatever its counters, answers the same to the same probe: the
   rewritten document for Host h, and the same error for the same failure. *)
C36_AnswerIgnoresHistory ==
    /\ handler \in DiscoveryHandlers
          => response = DiscoveryAnswer(request.path, request.host, fetched)
    /\ \A h \in PublicHosts :
        /\ DiscoveryAnswer(PathVersion, h, ProbeVersion)
              = WriteJson(DocObject([key \in {"webSocketDebuggerUrl"} |->
                                        JStr(SchemeWSS \o h \o PathPageA)]))
        /\ DiscoveryAnswer(PathVersion, h, FetchFailed("refused"))
              = HttpError(MsgGetVersion
                            \o UrlErrorText(SchemeHTTP \o targetHostPort \o PathVersion,
                                            CauseRefused), 502)
        /\ DiscoveryAnswer(PathJson, h, ProbeList)
              = WriteJson(DocArray(<<EntryObject(
                    [key \in {"id", "webSocketDebuggerUrl"} |->
                        IF key = "id" THEN JStr(<<"A">>)
                        ELSE JStr(SchemeWSS \o h \o PathPageA)])>>))
        /\ DiscoveryAnswer(PathJson, h, FetchFailed("readfail"))
              = HttpError(MsgRead \o CauseReadFail, 500)

(* the second of two requests for /json/version, served after the first had
   failed and been counted, answered 200 *)
C36_Witness ==
    /\ handler = "handleJsonVersion"
    /\ requestCount = 2
    /\ errorCount = 1
    /\ response.status = 200
    /\ request.upgrade # <<>>

\* the index of the first of "/", "?", "#" in url from position k on, or Len(url) + 1
RECURSIVE AuthorityEnd(_, _)
AuthorityEnd(url, k) ==
    IF k > Len(url) \/ url[k] \in {"/", "?", "#"} THEN k
    ELSE AuthorityEnd(url, k + 1)

\* the host:port of a ws:// URL, <<>> for any other string
Authority(url) ==
    IF Len(url) >= Len(SchemeWS) /\ SubSeq(url, 1, Len(SchemeWS)) = SchemeWS
    THEN SubSeq(url, Len(SchemeWS) + 1, AuthorityEnd(url, Len(SchemeWS) + 1) - 1)
    ELSE <<>>

\* the internal spellings of the target's host:port
InternalHostPorts ==
    { targetHostPort,
      Loopback \o <<":">> \o Itoa(targetPort),
      Localhost \o <<":">> \o Itoa(targetPort) }

(* C37: rewriteWebSocketURL changes a URL only when its host:port is exactly
   one of the internal spellings; any other URL is returned unchanged. *)
C37_RewritesExactHostOnly ==
    (rwPc \in {"once", "twice"} /\ Authority(originalURL) \notin InternalHostPorts)
        => newURL = originalURL

\* the body the handler read decodes into the shape the handler expects
DecodesAsExpected ==
    /\ fetched.outcome = "ok"
    /\ handler = "handleJsonVersion" => UnmarshalMap(fetched.doc).ok
    /\ handler = "handleJsonList" => UnmarshalList(fetched.doc).ok

(* C38: whenever the body the upstream sent decodes into the expected shape,
   the discovery handler answers 200, whatever status code the upstream sent
   with it. *)
C38_StatusNotRelayed ==
    (handler \in DiscoveryHandlers /\ DecodesAsExpected) => response.status = 200

\* a target list the upstream sent with status 500, answered 200
C38_Witness ==
    /\ handler = "handleJsonList"
    /\ fetched.status = 500
    /\ fetched.doc.k = "array"
    /\ Len(fetched.doc.arr) > 0
    /\ response.status = 200

\* no tool handler is between its call and its return
NoHandlerRunning == box.pc \notin GpPcs \cup {"wf:write", "wf:alive"}

\* no restartServer is between its first and its last statement
NoRestartRunning ==
    \A t \in DOMAIN box.timers : box.timers[t].pc \in {"pending", "done"}

(* C39: whenever no tool handler and no restart is in progress, a previewUrl
   that is set comes with a serverHandle that is set. *)
C39_UrlImpliesHandle ==
    (NoHandlerRunning /\ NoRestartRunning /\ box.previewUrl # 0)
        => box.serverHandle # 0
====
